---- MODULE Spec2Model ----
(***************************************************************************)
(* AccManager: the client-side vault session (zustand useVaultStore, the   *)
(* sessionStorage helpers, the Accounts/Secrets pages, the unlock modal)   *)
(* and the worker's authentication, token and record handlers over the D1  *)
(* tables.  Two specifications share the module: SpecVault for the browser *)
(* side, SpecServer for the worker side.                                   *)
(***************************************************************************)
EXTENDS Integers, Sequences, FiniteSets, TLC

VARIABLES
    \* ---- browser side -------------------------------------------------
    now,              \* Date.now() in the browser, milliseconds
    ticks,            \* how often the clock has advanced
    masterKey,        \* useVaultStore.masterKey
    userSalt,         \* useVaultStore.userSalt
    isUnlocked,       \* useVaultStore.isUnlocked
    unlockExpiry,     \* useVaultStore.unlockExpiry
    sessionStore,     \* sessionStorage['accmanager-vault-session'], {} when absent
    storeTasks,       \* storeVaultSession calls suspended at await exportKey
    restoreTasks,     \* retrieveVaultSession results whose .then has not run yet
    user,             \* useAuthStore.user (persisted in localStorage)
    unlockModalOpen,  \* page state unlockModalOpen
    serverRows,       \* the wire records the API holds for the signed-in user
    encryptedAccounts,\* page state encryptedAccounts / encryptedSecrets
    accounts,         \* page state accounts / secrets (decrypted rows)
    effectPending,    \* the decrypt useEffect has a changed dependency
    decryptTasks,     \* decryptAccounts passes suspended at await decryptObject
    lastOp,           \* the store or page operation that produced this state
    checkResult,      \* return value of the latest checkUnlockStatus()
    lastUnlock,       \* the latest setMasterKey not followed by clearMasterKey,
                      \* and whether its storeVaultSession has settled
    localStorage,     \* localStorage: 'accmanager-auth', 'accmanager-system'
    requestBodies,    \* the JSON bodies ApiClient.request has sent
    editingAccount    \* page state editingAccount: the row under edit, or none

vaultVars == <<now, ticks, masterKey, userSalt, isUnlocked, unlockExpiry,
               sessionStore, storeTasks, restoreTasks, user, unlockModalOpen,
               serverRows, encryptedAccounts, accounts, effectPending,
               decryptTasks, lastOp, checkResult, lastUnlock, localStorage,
               requestBodies, editingAccount>>

VARIABLES
    \* ---- worker side: the D1 tables ------------------------------------
    adminInitialized, \* _config['admin_initialized'] = 'true'
    users,            \* users rows
    admins,           \* admins rows (user ids)
    sessions,         \* sessions rows
    resetTokens,      \* password_reset_tokens rows
    accountRows,      \* accounts rows
    secretRows,       \* secrets rows
    nextId,           \* AUTOINCREMENT counters and the token generator
    \* ---- worker side: requests ------------------------------------------
    srvNow,           \* Date.now() in the worker, milliseconds
    reqs,             \* the requests received, in flight or answered
    issued            \* the bearer secrets handed to clients

serverVars == <<adminInitialized, users, admins, sessions, resetTokens,
                accountRows, secretRows, nextId, srvNow, reqs, issued>>

VARIABLES
    \* ---- library functions applied to given arguments --------------------
    call,             \* the function applied last and its arguments
    result            \* what it returned

callVars == <<call, result>>

vars == <<vaultVars, serverVars, callVars>>

-----------------------------------------------------------------------------
(* Bounds                                                                  *)

MaxTicks == 2
MaxPending == 1
MaxRows == 1
MaxReqs == 2
MaxSrvTicks == 1
MaxBodies == 3

-----------------------------------------------------------------------------
(* Values                                                                  *)

NullTime == 0 - 1
NoUser == "null"
ClientUsers == {"1"}
Passwords == {"pwA", "pwB"}
Plaintexts == {"x"}
DecryptionFailed == "[DECRYPTION FAILED]"

PBKDF2_ITERATIONS == 300000
DEFAULT_UNLOCK_DURATION == 15 * 60 * 1000

TickSteps == {1, DEFAULT_UNLOCK_DURATION - 1}

NoKey == [material |-> <<>>, extractable |-> FALSE]
NoUnlock == [key |-> NoKey, expiry |-> NullTime, stored |-> FALSE]

-----------------------------------------------------------------------------
(* lib/crypto.ts (client)                                                  *)

\* A deriveKey whose result may be exported.
deriveKeyExtractable(password, salt) ==
    [material |-> <<password, salt, PBKDF2_ITERATIONS>>, extractable |-> TRUE]

\* crypto.subtle.deriveKey(..., extractable = false, ['encrypt','decrypt'])
deriveKey(password, salt) ==
    [material |-> <<password, salt, PBKDF2_ITERATIONS>>, extractable |-> FALSE]

\* crypto.subtle.exportKey('raw', key) rejects with InvalidAccessError
\* unless the key was created extractable.
CanExport(key) == key.extractable

exportKey(key) == key.material

\* crypto.subtle.importKey('raw', bytes, AES-GCM, extractable = false, ...)
importKey(bytes) == [material |-> bytes, extractable |-> FALSE]

\* JavaScript values: strings, null, undefined, numbers.  A string is
\* either text or the Base64 text of a byte string (b64).
NoB64 == [nonce |-> 0, ct |-> <<>>, tag |-> <<>>, slack |-> 0,
          wellFormed |-> FALSE]
Str(s) == [t |-> "string", text |-> s, n |-> 0, b64 |-> NoB64]
Num(i) == [t |-> "number", text |-> "", n |-> i, b64 |-> NoB64]
Null == [t |-> "null", text |-> "", n |-> 0, b64 |-> NoB64]
Undefined == [t |-> "undefined", text |-> "", n |-> 0, b64 |-> NoB64]
Bool(b) == [t |-> "boolean", text |-> "", n |-> IF b THEN 1 ELSE 0, b64 |-> NoB64]

\* String(value)
String(value) == IF value.t = "number" THEN ToString(value.n) ELSE value.text

NONCE_BYTES == 12
\* AES-GCM appends its 128-bit tag to the ciphertext.
TagBytes == 16

\* btoa writes 3 bytes as 4 characters; the last character of a byte
\* string whose length is not a multiple of 3 carries 4 or 2 bits that
\* belong to no byte.  btoa writes them as 0, atob discards them.
SlackBits(byteLength) ==
    IF byteLength % 3 = 0 THEN 0 ELSE IF byteLength % 3 = 1 THEN 4 ELSE 2

WireLength(b) == NONCE_BYTES + Len(b.ct[1]) + TagBytes

\* btoa(String.fromCharCode(...combined))
btoa(bytes) ==
    [t |-> "string", text |-> "base64", n |-> 0,
     b64 |-> [nonce |-> bytes.nonce, ct |-> bytes.ct, tag |-> bytes.tag,
              slack |-> 0, wellFormed |-> TRUE]]

\* atob(value) throws InvalidCharacterError on text that is not Base64.
atobOk(value) == value.b64.wellFormed

\* atob(value): the bytes, whatever the slack bits of the last character.
atob(value) ==
    [nonce |-> value.b64.nonce, ct |-> value.b64.ct, tag |-> value.b64.tag]

\* AES-GCM: the ciphertext of data and its tag under (key, nonce).
aesGcmEncrypt(data, key, nonce) ==
    LET ct == <<data, key.material, nonce>>
    IN [nonce |-> nonce, ct |-> ct, tag |-> <<key.material, nonce, ct>>]

\* AES-GCM decryption rejects (OperationError) unless the tag is the one
\* of (key, nonce, ciphertext).
aesGcmOpens(bytes, key) ==
    /\ bytes.ct # <<>>
    /\ bytes.tag = <<key.material, bytes.nonce, bytes.ct>>

\* encryptData(data, key): Base64(nonce + ciphertext) with the random nonce
encryptData(data, key, nonce) == btoa(aesGcmEncrypt(data, key, nonce))

\* decryptData(encryptedData, key) resolves, i.e. neither atob nor
\* crypto.subtle.decrypt throws.
decryptOk(wire, key) == atobOk(wire) /\ aesGcmOpens(atob(wire), key)

\* decryptData(encryptedData, key): the decoded plaintext when it resolves.
decryptData(wire, key) == atob(wire).ct[1]

ENCRYPTED == "_encrypted"
PassThroughKeys == {"id", "user_id", "date_modified"}
SecretKeys == {"name", "issuer"}
FieldKeys == SecretKeys \cup PassThroughKeys

\* fieldKey.endsWith('_encrypted')
endsWithEncrypted(fieldKey) == \E f \in FieldKeys : fieldKey = f \o ENCRYPTED

\* fieldKey.replace('_encrypted', '')
originalKey(fieldKey) == CHOOSE f \in FieldKeys : fieldKey = f \o ENCRYPTED

\* A loop body that hands every defined value to encryptData.
encryptFieldAlways(value, key, nonce) ==
    [out |-> encryptData(String(value), key, nonce), cipher |-> TRUE]

\* One turn of encryptObject's loop over a defined value: the value it
\* stores and whether it called encryptData.
encryptField(value, key, nonce) ==
    IF value = Null \/ value = Str("")
    THEN [out |-> Null, cipher |-> FALSE]
    ELSE [out |-> encryptData(String(value), key, nonce), cipher |-> TRUE]

\* The bytes of a key as exportKey('raw', key) gives them.
RawKey(key) == [t |-> "bytes", text |-> "", n |-> 0, bytes |-> key.material]

\* An encryptObject that puts the key bytes into its output.
encryptObjectLeaky(obj, key, nonce) ==
    [name_encrypted |-> RawKey(key), issuer_encrypted |-> Null]

encryptObject(obj, key, nonce) ==
    LET defined == {f \in DOMAIN obj : obj[f] # Undefined}
    IN [k \in {f \o ENCRYPTED : f \in defined} |->
          encryptField(obj[originalKey(k)], key, nonce).out]

\* A decryptObject callback without its try/catch.
decryptFieldUncaught(value, key) ==
    IF value.t = "string" /\ value.text # ""
    THEN IF decryptOk(value, key)
         THEN [out |-> Str(decryptData(value, key)), cipher |-> TRUE]
         ELSE [out |-> Str("thrown"), cipher |-> TRUE, thrown |-> TRUE]
    ELSE [out |-> Null, cipher |-> FALSE]

\* The callback of decryptObject for an *_encrypted entry: the value it
\* stores and whether it called decryptData.
decryptField(value, key) ==
    IF value.t = "string" /\ value.text # ""
    THEN IF decryptOk(value, key)
         THEN [out |-> Str(decryptData(value, key)), cipher |-> TRUE]
         ELSE [out |-> Str(DecryptionFailed), cipher |-> TRUE]
    ELSE [out |-> Null, cipher |-> FALSE]

Thrown == [thrown |-> TRUE]

\* decryptObject: Promise.all over the entries; it rejects when a callback
\* rejects.
decryptObject(encryptedObj, key) ==
    LET enc == {k \in DOMAIN encryptedObj : endsWithEncrypted(k)}
        pass == {k \in DOMAIN encryptedObj : ~endsWithEncrypted(k)}
                   \cap PassThroughKeys
        fields == [k \in enc |-> decryptField(encryptedObj[k], key)]
    IN IF \E k \in enc : "thrown" \in DOMAIN fields[k]
       THEN Thrown
       ELSE [f \in {originalKey(k) : k \in enc} \cup pass |->
               IF (f \o ENCRYPTED) \in enc THEN fields[f \o ENCRYPTED].out
               ELSE encryptedObj[f]]

\* String(decrypted.x ?? '')
OrEmpty(v) == IF v = Null THEN "" ELSE String(v)

toAccountRow(row, key) ==
    LET d == decryptObject([k \in DOMAIN row \ {"id"} |-> row[k]], key)
    IN [id |-> row.id, name |-> OrEmpty(d.name), issuer |-> OrEmpty(d.issuer)]

-----------------------------------------------------------------------------
(* store: useVaultStore and the sessionStorage helpers                     *)

RemoveAt(s, i) == [j \in 1..(Len(s) - 1) |-> IF j < i THEN s[j] ELSE s[j + 1]]

\* setMasterKey(key, rememberFor): set(...) then storeVaultSession(key, rememberFor),
\* which runs up to its first await (exportKey).
setMasterKey(key, rememberFor) ==
    /\ masterKey' = key
    /\ isUnlocked' = TRUE
    /\ unlockExpiry' = now + rememberFor
    /\ storeTasks' = Append(storeTasks, [key |-> key, duration |-> rememberFor])
    /\ lastUnlock' = [key |-> key, expiry |-> now + rememberFor, stored |-> FALSE]

\* clearMasterKey(): set(...) then clearVaultSession()
clearMasterKey ==
    /\ masterKey' = NoKey
    /\ isUnlocked' = FALSE
    /\ unlockExpiry' = NullTime
    /\ sessionStore' = {}
    /\ lastUnlock' = NoUnlock

\* The synchronous part of retrieveVaultSession(): the value its promise
\* will resolve to, and the sessionStorage it leaves.
retrieveResult ==
    IF sessionStore = {} THEN NoKey
    ELSE LET stored == CHOOSE s \in sessionStore : TRUE
         IN IF now > stored.expiry THEN NoKey ELSE importKey(stored.key)

retrieveStore ==
    IF sessionStore = {} THEN {}
    ELSE LET stored == CHOOSE s \in sessionStore : TRUE
         IN IF now > stored.expiry THEN {} ELSE sessionStore

\* The unlock window set by setMasterKey has elapsed.
Expired == unlockExpiry # NullTime /\ now >= unlockExpiry

MarkEffect ==
    effectPending' = (effectPending \/ masterKey' # masterKey
                                    \/ encryptedAccounts' # encryptedAccounts)

\* JSON.stringify of the useAuthStore state, as persist writes it to
\* localStorage['accmanager-auth'].
persistedAuth(u) ==
    IF u = NoUser
    THEN [user |-> Null, token |-> Null, isAuthenticated |-> Bool(FALSE)]
    ELSE [user |-> Str(u), token |-> Str("session-token"),
          isAuthenticated |-> Bool(TRUE)]

\* The body of api.login(formData)
loginBody(u) == [username |-> Str(u), password |-> Str("login-password")]

-----------------------------------------------------------------------------
(* Browser-side actions                                                    *)

\* Passes that stay attached to whatever page is mounted.
stillMounted(tasks) == tasks

\* The decryptAccounts passes in flight when their page unmounts: they run
\* on, and their setAccounts reaches no mounted component, so what they
\* decrypted is of no further effect.
unmounted(tasks) ==
    [i \in 1..Len(tasks) |-> [key |-> NoKey, rows |-> {}, mounted |-> FALSE]]

\* useState<AccountRow | null>(null)
NoEdit == [id |-> 0, name |-> "", issuer |-> ""]

pageReset ==
    /\ unlockModalOpen' = FALSE
    /\ editingAccount' = NoEdit
    /\ encryptedAccounts' = {}
    /\ accounts' = {}
    /\ decryptTasks' = unmounted(decryptTasks)

\* The clock advances.
Tick(d) ==
    /\ ticks < MaxTicks
    /\ now' = now + d
    /\ ticks' = ticks + 1
    /\ lastOp' = "other"
    /\ UNCHANGED <<masterKey, userSalt, isUnlocked, unlockExpiry, sessionStore,
                   storeTasks, restoreTasks, user, unlockModalOpen, serverRows,
                   encryptedAccounts, accounts, effectPending, decryptTasks,
                   checkResult, lastUnlock>>
    /\ UNCHANGED <<localStorage, requestBodies, editingAccount>>
    /\ UNCHANGED <<serverVars, callVars>>

\* Login.handleSubmit after api.login succeeded: setAuth, setUserSalt,
\* clearMasterKey, navigate('/accounts'); the page mounts and fetches.
\* Passes left over from an earlier page are followed no further.
Login(u) ==
    /\ user = NoUser
    /\ user' = u
    /\ userSalt' = u
    /\ clearMasterKey
    /\ unlockModalOpen' = FALSE
    /\ encryptedAccounts' = serverRows
    /\ accounts' = {}
    /\ decryptTasks' = <<>>
    /\ editingAccount' = NoEdit
    /\ effectPending' = TRUE
    /\ lastOp' = "clearMasterKey"
    /\ localStorage' = [localStorage EXCEPT !.auth = persistedAuth(u)]
    /\ requestBodies' = requestBodies \cup {loginBody(u)}
    /\ UNCHANGED <<now, ticks, storeTasks, restoreTasks, serverRows,
                   checkResult>>
    /\ UNCHANGED <<serverVars, callVars>>

\* Layout.handleLogout: clearAuth, clearMasterKey, setUserSalt(null),
\* navigate('/login'); the page unmounts.
handleLogout ==
    /\ user # NoUser
    /\ user' = NoUser
    /\ userSalt' = "null"
    /\ clearMasterKey
    /\ pageReset
    /\ effectPending' = FALSE
    /\ lastOp' = "clearMasterKey"
    /\ localStorage' = [localStorage EXCEPT !.auth = persistedAuth(NoUser)]
    /\ UNCHANGED <<now, ticks, storeTasks, restoreTasks, serverRows,
                   checkResult, requestBodies>>
    /\ UNCHANGED <<serverVars, callVars>>

\* The "Unlock Vault" button, shown while !isUnlocked.
OpenUnlock ==
    /\ user # NoUser
    /\ ~isUnlocked
    /\ ~unlockModalOpen
    /\ unlockModalOpen' = TRUE
    /\ lastOp' = "other"
    /\ UNCHANGED <<now, ticks, masterKey, userSalt, isUnlocked, unlockExpiry,
                   sessionStore, storeTasks, restoreTasks, user, serverRows,
                   encryptedAccounts, accounts, effectPending, decryptTasks,
                   checkResult, lastUnlock>>
    /\ UNCHANGED <<localStorage, requestBodies, editingAccount>>
    /\ UNCHANGED <<serverVars, callVars>>

\* UnlockVaultModal.handleSubmit with a non-blank password: deriveKey,
\* onUnlock(key) = setMasterKey(key) and a fetch, then onClose().
Unlock(pw) ==
    /\ user # NoUser
    /\ unlockModalOpen
    /\ Len(storeTasks) < MaxPending
    /\ setMasterKey(deriveKey(pw, user), DEFAULT_UNLOCK_DURATION)
    /\ encryptedAccounts' = serverRows
    /\ unlockModalOpen' = FALSE
    /\ MarkEffect
    /\ lastOp' = "unlock"
    /\ UNCHANGED <<now, ticks, userSalt, sessionStore, restoreTasks, user,
                   serverRows, accounts, decryptTasks, checkResult>>
    /\ UNCHANGED <<localStorage, requestBodies, editingAccount>>
    /\ UNCHANGED <<serverVars, callVars>>

\* storeVaultSession resumes after await exportKey: writes the item, or
\* lands in its catch when the export was refused.
storeVaultSession(i) ==
    /\ i \in 1..Len(storeTasks)
    /\ LET task == storeTasks[i]
       IN sessionStore' =
            IF CanExport(task.key)
            THEN {[key |-> exportKey(task.key), expiry |-> now + task.duration]}
            ELSE sessionStore
    /\ storeTasks' = RemoveAt(storeTasks, i)
    /\ lastUnlock' = IF lastUnlock # NoUnlock /\ storeTasks[i].key = lastUnlock.key
                     THEN [lastUnlock EXCEPT !.stored = TRUE]
                     ELSE lastUnlock
    /\ lastOp' = "storeVaultSession"
    /\ UNCHANGED <<now, ticks, masterKey, userSalt, isUnlocked, unlockExpiry,
                   restoreTasks, user, unlockModalOpen, serverRows,
                   encryptedAccounts, accounts, effectPending, decryptTasks,
                   checkResult>>
    /\ UNCHANGED <<localStorage, requestBodies, editingAccount>>
    /\ UNCHANGED <<serverVars, callVars>>

\* checkUnlockStatus(): true while the held key is unexpired; otherwise it
\* starts retrieveVaultSession() and returns false.
checkUnlockStatus ==
    /\ IF masterKey # NoKey /\ unlockExpiry # NullTime /\ unlockExpiry # 0
          /\ now < unlockExpiry
       THEN /\ checkResult' = TRUE
            /\ UNCHANGED <<sessionStore, restoreTasks>>
       ELSE /\ Len(restoreTasks) < MaxPending
            /\ checkResult' = FALSE
            /\ sessionStore' = retrieveStore
            /\ restoreTasks' = Append(restoreTasks, retrieveResult)
    /\ lastOp' = "checkUnlockStatus"
    /\ UNCHANGED <<now, ticks, masterKey, userSalt, isUnlocked, unlockExpiry,
                   storeTasks, user, unlockModalOpen, serverRows,
                   encryptedAccounts, accounts, effectPending, decryptTasks,
                   lastUnlock>>
    /\ UNCHANGED <<localStorage, requestBodies, editingAccount>>
    /\ UNCHANGED <<serverVars, callVars>>

\* The .then callback of retrieveVaultSession() in checkUnlockStatus.
restoreThen(i) ==
    /\ i \in 1..Len(restoreTasks)
    /\ LET key == restoreTasks[i]
       IN IF key # NoKey
          THEN masterKey' = key /\ isUnlocked' = TRUE
          ELSE UNCHANGED <<masterKey, isUnlocked>>
    /\ restoreTasks' = RemoveAt(restoreTasks, i)
    /\ UNCHANGED encryptedAccounts
    /\ MarkEffect
    /\ lastOp' = "restoreThen"
    /\ UNCHANGED <<now, ticks, userSalt, unlockExpiry, sessionStore, storeTasks,
                   user, unlockModalOpen, serverRows, accounts, decryptTasks,
                   checkResult, lastUnlock>>
    /\ UNCHANGED <<localStorage, requestBodies, editingAccount>>
    /\ UNCHANGED <<serverVars, callVars>>

\* Page reload: the JavaScript heap is rebuilt from the initial store
\* values, pending promises are gone, sessionStorage and localStorage stay.
Reload ==
    /\ masterKey' = NoKey
    /\ isUnlocked' = FALSE
    /\ unlockExpiry' = NullTime
    /\ userSalt' = user
    /\ storeTasks' = <<>>
    /\ restoreTasks' = <<>>
    /\ unlockModalOpen' = FALSE
    /\ encryptedAccounts' = IF user = NoUser THEN {} ELSE serverRows
    /\ accounts' = {}
    /\ decryptTasks' = <<>>
    /\ effectPending' = (user # NoUser)
    /\ lastOp' = "other"
    /\ UNCHANGED <<now, ticks, sessionStore, user, serverRows, checkResult,
                   lastUnlock>>
    /\ editingAccount' = NoEdit
    /\ UNCHANGED <<localStorage, requestBodies>>
    /\ UNCHANGED <<serverVars, callVars>>

\* The tab is closed and the application opened in a new one:
\* sessionStorage is discarded as well.
CloseTab ==
    /\ masterKey' = NoKey
    /\ isUnlocked' = FALSE
    /\ unlockExpiry' = NullTime
    /\ userSalt' = user
    /\ sessionStore' = {}
    /\ storeTasks' = <<>>
    /\ restoreTasks' = <<>>
    /\ unlockModalOpen' = FALSE
    /\ encryptedAccounts' = IF user = NoUser THEN {} ELSE serverRows
    /\ accounts' = {}
    /\ decryptTasks' = <<>>
    /\ effectPending' = (user # NoUser)
    /\ lastUnlock' = NoUnlock
    /\ lastOp' = "other"
    /\ UNCHANGED <<now, ticks, user, serverRows, checkResult>>
    /\ editingAccount' = NoEdit
    /\ UNCHANGED <<localStorage, requestBodies>>
    /\ UNCHANGED <<serverVars, callVars>>

\* The decrypt useEffect([encryptedAccounts, masterKey]): empties the rows
\* without records or key, else starts a decryptAccounts pass with the key.
decryptEffect ==
    /\ user # NoUser
    /\ effectPending
    /\ effectPending' = FALSE
    /\ IF encryptedAccounts = {} \/ masterKey = NoKey
       THEN /\ accounts' = {}
            /\ UNCHANGED decryptTasks
            /\ lastOp' = "other"
       ELSE /\ Len(decryptTasks) < MaxPending
            /\ decryptTasks' = Append(decryptTasks,
                                 [key |-> masterKey, rows |-> encryptedAccounts,
                                  mounted |-> TRUE])
            /\ UNCHANGED accounts
            /\ lastOp' = "decrypt"
    /\ UNCHANGED <<now, ticks, masterKey, userSalt, isUnlocked, unlockExpiry,
                   sessionStore, storeTasks, restoreTasks, user, unlockModalOpen,
                   serverRows, encryptedAccounts, checkResult, lastUnlock>>
    /\ UNCHANGED <<localStorage, requestBodies, editingAccount>>
    /\ UNCHANGED <<serverVars, callVars>>

\* decryptAccounts finishes its loop: setAccounts(decryptedRows), which
\* changes nothing once the page that started the pass has unmounted.
decryptAccounts(i) ==
    /\ i \in 1..Len(decryptTasks)
    /\ LET task == decryptTasks[i]
       IN accounts' = IF task.mounted
                      THEN {toAccountRow(r, task.key) : r \in task.rows}
                      ELSE accounts
    /\ decryptTasks' = RemoveAt(decryptTasks, i)
    /\ lastOp' = "other"
    /\ UNCHANGED <<now, ticks, masterKey, userSalt, isUnlocked, unlockExpiry,
                   sessionStore, storeTasks, restoreTasks, user, unlockModalOpen,
                   serverRows, encryptedAccounts, effectPending, checkResult,
                   lastUnlock>>
    /\ UNCHANGED <<localStorage, requestBodies, editingAccount>>
    /\ UNCHANGED <<serverVars, callVars>>

\* handleEdit(account): ensureUnlocked() opens the unlock modal without a
\* key; with one, the row is taken under edit and its decrypted values
\* are put into the form.
handleEdit(account) ==
    /\ user # NoUser
    /\ account \in accounts
    /\ IF masterKey = NoKey
       THEN /\ unlockModalOpen' = TRUE
            /\ UNCHANGED editingAccount
            /\ lastOp' = "ensureUnlocked"
       ELSE /\ editingAccount' = account
            /\ UNCHANGED unlockModalOpen
            /\ lastOp' = "other"
    /\ UNCHANGED <<now, ticks, masterKey, userSalt, isUnlocked, unlockExpiry,
                   sessionStore, storeTasks, restoreTasks, user, serverRows,
                   encryptedAccounts, accounts, effectPending, decryptTasks,
                   checkResult, lastUnlock>>
    /\ UNCHANGED <<localStorage, requestBodies>>
    /\ UNCHANGED <<serverVars, callVars>>

\* updateAccount on the row `id` with the payload: every field present in
\* the payload replaces the stored one (normalizeEncrypted keeps null).
updatedRows(id, payload) ==
    {IF r.id = id
     THEN [r EXCEPT !.name_encrypted = payload.name_encrypted,
                    !.issuer_encrypted = payload.issuer_encrypted]
     ELSE r : r \in serverRows}

\* onSubmit(data): ensureUnlocked() opens the unlock modal without a key;
\* with one, encryptObject of the six form fields, then api.updateAccount
\* for the row under edit or api.createAccount, setEditingAccount(null),
\* fetchAccounts.
onSubmit(data, nonce) ==
    /\ user # NoUser
    /\ IF masterKey = NoKey
       THEN /\ unlockModalOpen' = TRUE
            /\ UNCHANGED <<serverRows, encryptedAccounts, editingAccount>>
            /\ UNCHANGED requestBodies
            /\ lastOp' = "ensureUnlocked"
       ELSE /\ editingAccount = NoEdit => Cardinality(serverRows) < MaxRows
            /\ LET payload == encryptObject(data, masterKey, nonce)
                   id == Cardinality(serverRows) + 1
               IN serverRows' =
                    IF editingAccount # NoEdit
                    THEN updatedRows(editingAccount.id, payload)
                    ELSE serverRows \cup
                           {[id |-> id, name_encrypted |-> payload.name_encrypted,
                             issuer_encrypted |-> payload.issuer_encrypted]}
            /\ encryptedAccounts' = serverRows'
            /\ requestBodies' = requestBodies \cup
                                  {encryptObject(data, masterKey, nonce)}
            /\ editingAccount' = NoEdit
            /\ UNCHANGED unlockModalOpen
            /\ lastOp' = "encrypt"
    /\ UNCHANGED masterKey
    /\ MarkEffect
    /\ UNCHANGED <<now, ticks, userSalt, isUnlocked, unlockExpiry, sessionStore,
                   storeTasks, restoreTasks, user, accounts, decryptTasks,
                   checkResult, lastUnlock>>
    /\ UNCHANGED localStorage
    /\ UNCHANGED <<serverVars, callVars>>


-----------------------------------------------------------------------------
(* worker crypto.ts                                                        *)

PBKDF2_ITERATIONS_DEFAULT == 100
RESET_TOKEN_EXPIRY_MINUTES == 60

ResetLifetime == RESET_TOKEN_EXPIRY_MINUTES * 60 * 1000
\* expiresAt.setDate(expiresAt.getDate() + 7)
SessionLifetime == 7 * 24 * 60 * 60 * 1000

ServerPasswords == {"p1", "p2"}
Salts == {"s1"}
Identities == {[username |-> "alice", email |-> "alice@x"],
               [username |-> "bob", email |-> "bob@x"]}
Ciphertexts == {"c1", "c2"}

\* hashToken: the SHA-256 hex digest of the token, a value no token equals.
hashToken(token) == 1000 + token

\* A stored hash string is its '$'-separated segments after the leading
\* '$'.  A segment is text; what matters of it is whether it is empty, all
\* digits (and then its number) or Base64 (and then its bytes).
Text(s) == [text |-> s, digits |-> FALSE, n |-> 0, b64 |-> FALSE, bytes |-> <<>>]
Digits(i) == [text |-> ToString(i), digits |-> TRUE, n |-> i, b64 |-> FALSE,
              bytes |-> <<>>]
\* toBase64(bytes)
toBase64(bytes) == [text |-> "base64", digits |-> FALSE, n |-> 0, b64 |-> TRUE,
                    bytes |-> bytes]

\* fromBase64(value): atob throws InvalidCharacterError on other text.
fromBase64Ok(segment) == segment.b64
fromBase64(segment) == segment.bytes

\* PBKDF2-SHA256 deriveBits over (password, salt, iterations); it rejects
\* (OperationError) for zero iterations.
pbkdf2Ok(iterations) == iterations > 0
pbkdf2(password, salt, iterations) == <<password, salt, iterations>>

NoHash == <<>>

\* `$pbkdf2$${iterations}$${saltB64}$${hashB64}`
formatHash(iterations, salt, hashBytes) ==
    <<Text("pbkdf2"), Digits(iterations), toBase64(salt), toBase64(hashBytes)>>

\* hashPassword at a given cost: what hashPassword writes where the
\* default cost is that one.
hashPasswordAt(password, salt, iterations) ==
    formatHash(iterations, <<salt>>, pbkdf2(password, <<salt>>, iterations))

\* hashPassword(password) with its random salt
hashPassword(password, salt) ==
    hashPasswordAt(password, salt, PBKDF2_ITERATIONS_DEFAULT)

\* storedHash.startsWith('$pbkdf2$') and the match of
\* /^\$pbkdf2\$(\d+)\$([^$]+)\$([^$]+)$/
matchesFormat(storedHash) ==
    /\ Len(storedHash) >= 2 /\ storedHash[1].text = "pbkdf2"
    /\ Len(storedHash) = 4
    /\ storedHash[2].digits
    /\ storedHash[3].text # "" /\ storedHash[4].text # ""

\* verifyPassword throws: fromBase64 of the salt or of the digest, or
\* deriveBits with the cost of the string.
verifyPasswordThrows(password, storedHash) ==
    /\ matchesFormat(storedHash)
    /\ \/ ~fromBase64Ok(storedHash[3])
       \/ ~fromBase64Ok(storedHash[4])
       \/ ~pbkdf2Ok(storedHash[2].n)

\* A verifyPassword that derives with the current default cost.
verifyPasswordDefaultCost(password, storedHash) ==
    /\ matchesFormat(storedHash)
    /\ pbkdf2(password, fromBase64(storedHash[3]), PBKDF2_ITERATIONS_DEFAULT)
          = fromBase64(storedHash[4])

\* verifyPassword(password, storedHash) when it does not throw:
\* timingSafeEqual of the digest recomputed with the cost and salt of the
\* string and the digest of the string.
verifyPassword(password, storedHash) ==
    /\ matchesFormat(storedHash)
    /\ pbkdf2(password, fromBase64(storedHash[3]), storedHash[2].n)
          = fromBase64(storedHash[4])

-----------------------------------------------------------------------------
(* Requests                                                                *)

NoRow == {}

\* The body of a request that is not an import.
NoImport == [truncate |-> FALSE, users |-> {}, accounts |-> {}, secrets |-> {}]

BlankReq ==
    [kind |-> "", pc |-> "done", status |-> 0, error |-> "", token |-> 0,
     userId |-> 0, role |-> "", name |-> "", email |-> "", pw |-> "",
     hash |-> NoHash, table |-> "", target |-> 0, payload |-> "",
     newToken |-> 0, import |-> NoImport,
     resp |-> {}]

Running(i) == i \in 1..Len(reqs) /\ reqs[i].pc # "done"

CanReceive == Len(reqs) < MaxReqs

\* c.json(body, status): the request is answered.
Answer(r, status, error) ==
    [r EXCEPT !.pc = "done", !.status = status, !.error = error]

Receive(r) == reqs' = Append(reqs, r)

Update(i, r) == reqs' = [reqs EXCEPT ![i] = r]

TicksOf(t) == t \div ResetLifetime

\* The worker's clock advances.
ServerTick(d) ==
    /\ TicksOf(srvNow) < MaxSrvTicks
    /\ srvNow' = srvNow + d
    /\ UNCHANGED <<adminInitialized, users, admins, sessions, resetTokens,
                   accountRows, secretRows, nextId, reqs, issued>>
    /\ UNCHANGED <<vaultVars, callVars>>

-----------------------------------------------------------------------------
(* routes/auth.ts                                                          *)

\* UNIQUE(username), UNIQUE(email) on users
UniqueUser(username, email) ==
    \A u \in users : u.username # username /\ u.email # email

\* setupAdmin: zod parse, SELECT admin_initialized; 409 when 'true',
\* else hashPassword and on to the INSERT.
setupAdmin_check(ident, password, salt) ==
    /\ CanReceive
    /\ LET r == [BlankReq EXCEPT !.kind = "setupAdmin", !.name = ident.username,
                                 !.email = ident.email, !.pw = password]
       IN IF adminInitialized
          THEN Receive(Answer(r, 409, "Admin already initialized"))
          ELSE Receive([r EXCEPT !.pc = "insert",
                                 !.hash = hashPassword(password, salt)])
    /\ UNCHANGED <<adminInitialized, users, admins, sessions, resetTokens,
                   accountRows, secretRows, nextId, srvNow, issued>>
    /\ UNCHANGED <<vaultVars, callVars>>

\* setupAdmin: INSERT INTO users (...,'admin') RETURNING id; a constraint
\* failure throws into the catch (500).
setupAdmin_insert(i) ==
    /\ Running(i)
    /\ reqs[i].kind = "setupAdmin" /\ reqs[i].pc = "insert"
    /\ LET r == reqs[i]
       IN IF UniqueUser(r.name, r.email)
          THEN /\ users' = users \cup
                     {[id |-> nextId.user, username |-> r.name, email |-> r.email,
                       password_hash |-> r.hash, role |-> "admin"]}
               /\ nextId' = [nextId EXCEPT !.user = @ + 1]
               /\ Update(i, [r EXCEPT !.pc = "batch", !.userId = nextId.user])
          ELSE /\ Update(i, Answer(r, 500, "Failed to setup admin"))
               /\ UNCHANGED <<users, nextId>>
    /\ UNCHANGED <<adminInitialized, admins, sessions, resetTokens,
                   accountRows, secretRows, srvNow, issued>>
    /\ UNCHANGED <<vaultVars, callVars>>

\* setupAdmin: batch [UPDATE _config SET value = 'true', INSERT INTO admins]
setupAdmin_batch(i) ==
    /\ Running(i)
    /\ reqs[i].kind = "setupAdmin" /\ reqs[i].pc = "batch"
    /\ adminInitialized' = TRUE
    /\ admins' = admins \cup {reqs[i].userId}
    /\ Update(i, Answer(reqs[i], 200, ""))
    /\ UNCHANGED <<users, sessions, resetTokens, accountRows, secretRows,
                   nextId, srvNow, issued>>
    /\ UNCHANGED <<vaultVars, callVars>>

\* login: SELECT the user by username, verifyPassword; 401 on either
\* failure, 500 from the catch when verifyPassword throws, else
\* generateToken(32) and on to the INSERT.
login_verify(username, password) ==
    /\ CanReceive
    /\ LET r == [BlankReq EXCEPT !.kind = "login", !.name = username,
                                 !.pw = password]
           found == {u \in users : u.username = username}
       IN IF found = {}
          THEN /\ Receive(Answer(r, 401, "Invalid credentials"))
               /\ UNCHANGED nextId
          ELSE LET u == CHOOSE x \in found : TRUE
               IN IF verifyPasswordThrows(password, u.password_hash)
                  THEN /\ Receive(Answer(r, 500, "Login failed"))
                       /\ UNCHANGED nextId
                  ELSE IF ~verifyPassword(password, u.password_hash)
                  THEN /\ Receive(Answer(r, 401, "Invalid credentials"))
                       /\ UNCHANGED nextId
                  ELSE /\ Receive([r EXCEPT !.pc = "insert", !.userId = u.id,
                                            !.role = u.role,
                                            !.newToken = nextId.token])
                       /\ nextId' = [nextId EXCEPT !.token = @ + 1]
    /\ UNCHANGED <<adminInitialized, users, admins, sessions, resetTokens,
                   accountRows, secretRows, srvNow, issued>>
    /\ UNCHANGED <<vaultVars, callVars>>

\* The value login binds to sessions.token.
sessionTokenColumn(sessionToken) == sessionToken

\* login: INSERT INTO sessions (token, user_id, expires_at); the response
\* carries the token.  FOREIGN KEY(user_id): the insert throws (500) when
\* the user row is gone.
login_insert(i) ==
    /\ Running(i)
    /\ reqs[i].kind = "login" /\ reqs[i].pc = "insert"
    /\ LET r == reqs[i]
       IN IF \E u \in users : u.id = r.userId
          THEN /\ sessions' = sessions \cup
                     {[token |-> sessionTokenColumn(r.newToken),
                       user_id |-> r.userId,
                       expires_at |-> srvNow + SessionLifetime]}
               /\ issued' = issued \cup
                     {[token |-> r.newToken, user_id |-> r.userId,
                       kind |-> "session"]}
               /\ Update(i, Answer(r, 200, ""))
          ELSE /\ Update(i, Answer(r, 500, "Login failed"))
               /\ UNCHANGED <<sessions, issued>>
    /\ UNCHANGED <<adminInitialized, users, admins, resetTokens, accountRows,
                   secretRows, nextId, srvNow>>
    /\ UNCHANGED <<vaultVars, callVars>>

\* A password shorter than the twelve characters resetPasswordSchema asks.
TooShort == "short"

\* resetPasswordSchema.parse(body) does not throw.
resetPasswordSchema(newPassword) == newPassword # TooShort

\* resetPassword: the zod parse (400 from the catch); hashToken, SELECT the
\* token row; 400 when missing or used; an expired row goes on to its
\* DELETE; else hashPassword and on to the batch.
resetPassword_check(token, newPassword, salt) ==
    /\ CanReceive
    /\ LET r == [BlankReq EXCEPT !.kind = "resetPassword", !.token = token,
                                 !.pw = newPassword]
           found == {t \in resetTokens : t.token_hash = hashToken(token)}
       IN IF ~resetPasswordSchema(newPassword)
          THEN Receive(Answer(r, 400, "Validation failed"))
          ELSE IF found = {}
          THEN Receive(Answer(r, 400, "Invalid or expired token"))
          ELSE LET t == CHOOSE x \in found : TRUE
               IN IF t.used
                  THEN Receive(Answer(r, 400, "Token already used"))
                  ELSE IF t.expires_at < srvNow
                  THEN Receive([r EXCEPT !.pc = "deleteExpired"])
                  ELSE Receive([r EXCEPT !.pc = "batch", !.userId = t.user_id,
                                         !.hash = hashPassword(newPassword, salt)])
    /\ UNCHANGED <<adminInitialized, users, admins, sessions, resetTokens,
                   accountRows, secretRows, nextId, srvNow, issued>>
    /\ UNCHANGED <<vaultVars, callVars>>

\* The token table when the expired row is left where it is.
tokensKept(tokenHash) == resetTokens

\* DELETE FROM password_reset_tokens WHERE token_hash = ?
tokensWithout(tokenHash) == {t \in resetTokens : t.token_hash # tokenHash}

\* resetPassword: DELETE the expired token row, 400.
resetPassword_deleteExpired(i) ==
    /\ Running(i)
    /\ reqs[i].kind = "resetPassword" /\ reqs[i].pc = "deleteExpired"
    /\ resetTokens' = tokensWithout(hashToken(reqs[i].token))
    /\ Update(i, Answer(reqs[i], 400, "Token has expired"))
    /\ UNCHANGED <<adminInitialized, users, admins, sessions, accountRows,
                   secretRows, nextId, srvNow, issued>>
    /\ UNCHANGED <<vaultVars, callVars>>

\* The sessions table left by a batch that forgets its DELETE.
sessionsKept(userId) == sessions

\* DELETE FROM sessions WHERE user_id = ?
sessionsWithout(userId) == {s \in sessions : s.user_id # userId}

\* resetPassword: batch [UPDATE users SET password_hash, DELETE FROM
\* sessions WHERE user_id, UPDATE password_reset_tokens SET used = 1].
resetPassword_batch(i) ==
    /\ Running(i)
    /\ reqs[i].kind = "resetPassword" /\ reqs[i].pc = "batch"
    /\ LET r == reqs[i]
       IN /\ users' = {IF u.id = r.userId
                       THEN [u EXCEPT !.password_hash = r.hash] ELSE u
                       : u \in users}
          /\ sessions' = sessionsWithout(r.userId)
          /\ resetTokens' = {IF t.token_hash = hashToken(r.token)
                             THEN [t EXCEPT !.used = TRUE] ELSE t
                             : t \in resetTokens}
          /\ Update(i, Answer(r, 200, ""))
    /\ UNCHANGED <<adminInitialized, admins, accountRows, secretRows, nextId,
                   srvNow, issued>>
    /\ UNCHANGED <<vaultVars, callVars>>

-----------------------------------------------------------------------------
(* middleware.ts                                                           *)

\* The SELECT without its WHERE s.token = ?
sessionOfAny(token) == {s \in sessions : \E u \in users : u.id = s.user_id}

\* SELECT ... FROM sessions s JOIN users u ON s.user_id = u.id WHERE s.token = ?
sessionOf(token) ==
    {s \in sessions : s.token = token /\ \E u \in users : u.id = s.user_id}

roleOf(userId) == (CHOOSE u \in users : u.id = userId).role

\* A request carrying "Bearer <token>" would pass isAuthenticated now.
Authenticates(token) ==
    \E s \in sessionOf(token) : ~(srvNow > s.expires_at)

\* The token field of a request without an "Authorization: Bearer " header.
NoHeader == -1

\* isAuthenticated on a request r to a protected route: 401 without the
\* header, 401 without a session row, an expired row goes on to its DELETE,
\* else userId and role are attached and the handler runs next.
isAuthenticated(r) ==
    /\ CanReceive
    /\ IF r.token = NoHeader
       THEN Receive(Answer(r, 401, "Unauthorized"))
       ELSE IF sessionOf(r.token) = {}
       THEN Receive(Answer(r, 401, "Invalid or expired session"))
       ELSE LET s == CHOOSE x \in sessionOf(r.token) : TRUE
            IN IF srvNow > s.expires_at
               THEN Receive([r EXCEPT !.pc = "sessionExpired"])
               ELSE Receive([r EXCEPT !.pc = "handler", !.userId = s.user_id,
                                      !.role = roleOf(s.user_id)])
    /\ UNCHANGED <<adminInitialized, users, admins, sessions, resetTokens,
                   accountRows, secretRows, nextId, srvNow, issued>>
    /\ UNCHANGED <<vaultVars, callVars>>

\* isAuthenticated: DELETE the expired session, 401.
isAuthenticated_expired(i) ==
    /\ Running(i)
    /\ reqs[i].pc = "sessionExpired"
    /\ sessions' = {s \in sessions : s.token # reqs[i].token}
    /\ Update(i, Answer(reqs[i], 401, "Session expired"))
    /\ UNCHANGED <<adminInitialized, users, admins, resetTokens, accountRows,
                   secretRows, nextId, srvNow, issued>>
    /\ UNCHANGED <<vaultVars, callVars>>

\* logout: DELETE FROM sessions WHERE token = ?
logout(i) ==
    /\ Running(i)
    /\ reqs[i].kind = "logout" /\ reqs[i].pc = "handler"
    /\ sessions' = {s \in sessions : s.token # reqs[i].token}
    /\ Update(i, Answer(reqs[i], 200, ""))
    /\ UNCHANGED <<adminInitialized, users, admins, resetTokens, accountRows,
                   secretRows, nextId, srvNow, issued>>
    /\ UNCHANGED <<vaultVars, callVars>>

-----------------------------------------------------------------------------
(* routes/admin.ts                                                         *)

\* sendResetLink behind isAdmin: 403 for another role; SELECT the user,
\* 404 when missing; else generateToken(48), hashToken and on to the batch.
sendResetLink_select(i) ==
    /\ Running(i)
    /\ reqs[i].kind = "sendResetLink" /\ reqs[i].pc = "handler"
    /\ LET r == reqs[i]
       IN IF r.role # "admin"
          THEN /\ Update(i, Answer(r, 403, "Forbidden: Admin access required"))
               /\ UNCHANGED nextId
          ELSE IF ~\E u \in users : u.id = r.target
          THEN /\ Update(i, Answer(r, 404, "User not found"))
               /\ UNCHANGED nextId
          ELSE /\ Update(i, [r EXCEPT !.pc = "batch", !.newToken = nextId.token])
               /\ nextId' = [nextId EXCEPT !.token = @ + 1]
    /\ UNCHANGED <<adminInitialized, users, admins, sessions, resetTokens,
                   accountRows, secretRows, srvNow, issued>>
    /\ UNCHANGED <<vaultVars, callVars>>

\* sendResetLink: batch [DELETE the user's tokens, INSERT the new
\* token_hash]; FOREIGN KEY(user_id) makes it throw (500) when the user is
\* gone; then the link with the raw token is mailed.
sendResetLink_batch(i) ==
    /\ Running(i)
    /\ reqs[i].kind = "sendResetLink" /\ reqs[i].pc = "batch"
    /\ LET r == reqs[i]
       IN IF \E u \in users : u.id = r.target
          THEN /\ resetTokens' =
                     {t \in resetTokens : t.user_id # r.target} \cup
                     {[token_hash |-> hashToken(r.newToken), user_id |-> r.target,
                       expires_at |-> srvNow + ResetLifetime, used |-> FALSE]}
               /\ issued' = issued \cup
                     {[token |-> r.newToken, user_id |-> r.target,
                       kind |-> "reset"]}
               /\ Update(i, Answer(r, 200, ""))
          ELSE /\ Update(i, Answer(r, 500, "Failed to send reset link"))
               /\ UNCHANGED <<resetTokens, issued>>
    /\ UNCHANGED <<adminInitialized, users, admins, sessions, accountRows,
                   secretRows, nextId, srvNow>>
    /\ UNCHANGED <<vaultVars, callVars>>

\* A table whose rows outlive their user.
noCascade(rows, userIds) == rows

\* FOREIGN KEY (user_id) REFERENCES users(id) ON DELETE CASCADE: the rows
\* of a table left when the users with these ids are deleted.
cascade(rows, userIds) == {row \in rows : row.user_id \notin userIds}

\* deleteUser behind isAdmin: 403 for another role; 400 for the caller's
\* own id; else DELETE FROM users WHERE id = ? with the cascades of
\* schema.sql, and 200 whether or not a row went.  (currentUserId is the
\* number isAuthenticated attached.)
deleteUser(i) ==
    /\ Running(i)
    /\ reqs[i].kind = "deleteUser" /\ reqs[i].pc = "handler"
    /\ LET r == reqs[i]
           gone == {r.target}
       IN IF r.role # "admin"
          THEN /\ Update(i, Answer(r, 403, "Forbidden: Admin access required"))
               /\ UNCHANGED <<users, admins, sessions, resetTokens, accountRows,
                              secretRows>>
          ELSE IF r.target = r.userId
          THEN /\ Update(i, Answer(r, 400, "Cannot delete your own account"))
               /\ UNCHANGED <<users, admins, sessions, resetTokens, accountRows,
                              secretRows>>
          ELSE /\ users' = {u \in users : u.id # r.target}
               /\ admins' = admins \ gone
               /\ sessions' = cascade(sessions, gone)
               /\ resetTokens' = cascade(resetTokens, gone)
               /\ accountRows' = cascade(accountRows, gone)
               /\ secretRows' = cascade(secretRows, gone)
               /\ Update(i, Answer(r, 200, ""))
    /\ UNCHANGED <<adminInitialized, nextId, srvNow, issued>>
    /\ UNCHANGED <<vaultVars, callVars>>

\* forceResetPasswordSchema.parse(body) does not throw.
forceResetPasswordSchema(newPassword) == newPassword # TooShort

\* forceResetPassword behind isAdmin: 403 for another role; the zod parse
\* (400 from the catch); hashPassword and UPDATE users SET password_hash,
\* the first of three statements run one after the other.
forceResetPassword_update(i, salt) ==
    /\ Running(i)
    /\ reqs[i].kind = "forceResetPassword" /\ reqs[i].pc = "handler"
    /\ LET r == reqs[i]
           passwordHash == hashPassword(r.pw, salt)
       IN IF r.role # "admin"
          THEN /\ Update(i, Answer(r, 403, "Forbidden: Admin access required"))
               /\ UNCHANGED users
          ELSE IF ~forceResetPasswordSchema(r.pw)
          THEN /\ Update(i, Answer(r, 400, "Validation failed"))
               /\ UNCHANGED users
          ELSE /\ users' = {IF u.id = r.target
                            THEN [u EXCEPT !.password_hash = passwordHash] ELSE u
                            : u \in users}
               /\ Update(i, [r EXCEPT !.pc = "deleteSessions",
                                      !.hash = passwordHash])
    /\ UNCHANGED <<adminInitialized, admins, sessions, resetTokens, accountRows,
                   secretRows, nextId, srvNow, issued>>
    /\ UNCHANGED <<vaultVars, callVars>>

\* forceResetPassword: DELETE FROM sessions WHERE user_id = ?
forceResetPassword_deleteSessions(i) ==
    /\ Running(i)
    /\ reqs[i].kind = "forceResetPassword" /\ reqs[i].pc = "deleteSessions"
    /\ sessions' = sessionsWithout(reqs[i].target)
    /\ Update(i, [reqs[i] EXCEPT !.pc = "deleteTokens"])
    /\ UNCHANGED <<adminInitialized, users, admins, resetTokens, accountRows,
                   secretRows, nextId, srvNow, issued>>
    /\ UNCHANGED <<vaultVars, callVars>>

\* forceResetPassword: DELETE FROM password_reset_tokens WHERE user_id = ?
forceResetPassword_deleteTokens(i) ==
    /\ Running(i)
    /\ reqs[i].kind = "forceResetPassword" /\ reqs[i].pc = "deleteTokens"
    /\ resetTokens' = {t \in resetTokens : t.user_id # reqs[i].target}
    /\ Update(i, Answer(reqs[i], 200, ""))
    /\ UNCHANGED <<adminInitialized, users, admins, sessions, accountRows,
                   secretRows, nextId, srvNow, issued>>
    /\ UNCHANGED <<vaultVars, callVars>>

Ids(rows) == {row.id : row \in rows}

Max(a, b) == IF a > b THEN a ELSE b

\* The largest id of the rows, 0 for none.
MaxId(rows) ==
    IF rows = {} THEN 0 ELSE CHOOSE n \in Ids(rows) : \A m \in Ids(rows) : m <= n

\* An import that forgets its DELETEs.
truncateSkipped(payload, rows) == rows

\* The tables an import statement list starts from: emptied by the six
\* DELETEs of `truncate`, else as they are.
keptRows(payload, rows) == IF payload.truncate THEN {} ELSE rows

\* INSERT OR REPLACE INTO users: the rows that share the id, the username
\* or the email of a payload row are deleted for it.
replacedUsers(payload) ==
    {u \in keptRows(payload, users) :
        \E x \in payload.users :
            u.id = x.id \/ u.username = x.username \/ u.email = x.email}

\* The tables after the statements of importData(payload) have run.
importedUsers(payload) ==
    (keptRows(payload, users) \ replacedUsers(payload)) \cup payload.users

importedAdmins(payload) ==
    ({a \in keptRows(payload, admins) : a \notin Ids(replacedUsers(payload))})
        \cup {x.id : x \in {y \in payload.users : y.role = "admin"}}

\* INSERT OR REPLACE INTO accounts / secrets: the row of the same id is
\* deleted for the payload's row; the rows of replaced users have gone
\* with them.
importedRecords(payload, rows, payloadRows) ==
    {row \in cascade(keptRows(payload, rows), Ids(replacedUsers(payload))) :
        row.id \notin Ids(payloadRows)} \cup payloadRows

\* FOREIGN KEY (user_id) REFERENCES users(id) holds for the inserted rows.
importKeysHold(payload) ==
    \A row \in payload.accounts \cup payload.secrets :
        row.user_id \in Ids(importedUsers(payload))

\* importData behind isAdmin: 403 for another role; the statement list
\* ([six DELETEs when truncate], INSERT OR REPLACE users, INSERT OR IGNORE
\* admins, INSERT OR REPLACE accounts and secrets) run as one DB.batch: all
\* of it or, when a statement fails, none of it and 500.
importData(i) ==
    /\ Running(i)
    /\ reqs[i].kind = "importData" /\ reqs[i].pc = "handler"
    /\ LET r == reqs[i]
           payload == r.import
           replaced == Ids(replacedUsers(payload))
       IN IF r.role # "admin"
          THEN /\ Update(i, Answer(r, 403, "Forbidden: Admin access required"))
               /\ UNCHANGED <<users, admins, sessions, resetTokens, accountRows,
                              secretRows, nextId>>
          ELSE IF ~importKeysHold(payload)
          THEN /\ Update(i, Answer(r, 500, "Failed to import data"))
               /\ UNCHANGED <<users, admins, sessions, resetTokens, accountRows,
                              secretRows, nextId>>
          ELSE /\ users' = importedUsers(payload)
               /\ admins' = importedAdmins(payload)
               /\ sessions' = cascade(keptRows(payload, sessions), replaced)
               /\ resetTokens' = cascade(keptRows(payload, resetTokens), replaced)
               /\ accountRows' =
                     importedRecords(payload, accountRows, payload.accounts)
               /\ secretRows' =
                     importedRecords(payload, secretRows, payload.secrets)
               /\ nextId' = [nextId EXCEPT
                     !.user = Max(@, MaxId(payload.users) + 1),
                     !.account = Max(@, MaxId(payload.accounts) + 1),
                     !.secret = Max(@, MaxId(payload.secrets) + 1)]
               /\ Update(i, Answer(r, 200, ""))
    /\ UNCHANGED <<adminInitialized, srvNow, issued>>
    /\ UNCHANGED <<vaultVars, callVars>>

-----------------------------------------------------------------------------
(* routes/accounts.ts and routes/secrets.ts                                *)

TableRows(table) == IF table = "accounts" THEN accountRows ELSE secretRows

\* The tables after `table` becomes `rows`.
SetTable(table, rows) ==
    IF table = "accounts"
    THEN accountRows' = rows /\ UNCHANGED secretRows
    ELSE secretRows' = rows /\ UNCHANGED accountRows

\* A row filter without the owner.
rowWithId(row, id, userId) == row.id = id

\* WHERE id = ? AND user_id = ?
ownedRow(row, id, userId) == row.id = id /\ row.user_id = userId

\* WHERE user_id = ?
ownedBy(row, userId) == row.user_id = userId

IsRecordReq(i, op) ==
    /\ Running(i)
    /\ reqs[i].pc = "handler"
    /\ reqs[i].kind = op

TableOf(i) == reqs[i].table

recordFrame ==
    /\ UNCHANGED <<adminInitialized, users, admins, sessions, resetTokens,
                   srvNow, issued>>
    /\ UNCHANGED <<vaultVars, callVars>>

\* getAccounts / getSecrets: SELECT ... WHERE user_id = ?
listRecords(i) ==
    /\ IsRecordReq(i, "list")
    /\ LET r == reqs[i]
       IN Update(i, [Answer(r, 200, "") EXCEPT
              !.resp = {row \in TableRows(TableOf(i)) : ownedBy(row, r.userId)}])
    /\ UNCHANGED <<accountRows, secretRows, nextId>>
    /\ recordFrame

\* getAccount / getSecret: SELECT * WHERE id = ? AND user_id = ?, 404 when
\* no row comes back.
getRecord(i) ==
    /\ IsRecordReq(i, "get")
    /\ LET r == reqs[i]
           found == {row \in TableRows(TableOf(i)) :
                        ownedRow(row, r.target, r.userId)}
       IN IF found = {}
          THEN Update(i, Answer(r, 404, "not found"))
          ELSE Update(i, [Answer(r, 200, "") EXCEPT !.resp = found])
    /\ UNCHANGED <<accountRows, secretRows, nextId>>
    /\ recordFrame

\* createAccount / createSecret: INSERT ... (user_id, ...) RETURNING id
createRecord(i) ==
    /\ IsRecordReq(i, "create")
    /\ LET r == reqs[i]
           table == TableOf(i)
           id == IF table = "accounts" THEN nextId.account ELSE nextId.secret
       IN /\ SetTable(table, TableRows(table) \cup
                 {[id |-> id, user_id |-> r.userId, data |-> r.payload]})
          /\ nextId' = IF table = "accounts"
                       THEN [nextId EXCEPT !.account = @ + 1]
                       ELSE [nextId EXCEPT !.secret = @ + 1]
          /\ Update(i, Answer(r, 200, ""))
    /\ recordFrame

\* updateAccount / updateSecret: SELECT id WHERE id = ? AND user_id = ?,
\* 404 when no row comes back, else on to the UPDATE.
updateRecord_select(i) ==
    /\ IsRecordReq(i, "update")
    /\ LET r == reqs[i]
       IN IF \E row \in TableRows(TableOf(i)) : ownedRow(row, r.target, r.userId)
          THEN Update(i, [r EXCEPT !.pc = "update"])
          ELSE Update(i, Answer(r, 404, "not found"))
    /\ UNCHANGED <<accountRows, secretRows, nextId>>
    /\ recordFrame

\* updateAccount / updateSecret: UPDATE ... WHERE id = ? AND user_id = ?
updateRecord_update(i) ==
    /\ Running(i)
    /\ reqs[i].kind = "update" /\ reqs[i].pc = "update"
    /\ LET r == reqs[i]
           table == TableOf(i)
       IN /\ SetTable(table,
                 {IF ownedRow(row, r.target, r.userId)
                  THEN [row EXCEPT !.data = r.payload] ELSE row
                  : row \in TableRows(table)})
          /\ Update(i, Answer(r, 200, ""))
    /\ UNCHANGED nextId
    /\ recordFrame

\* deleteAccount / deleteSecret: DELETE WHERE id = ? AND user_id = ?
deleteRecord(i) ==
    /\ IsRecordReq(i, "delete")
    /\ LET r == reqs[i]
           table == TableOf(i)
       IN /\ SetTable(table,
                 {row \in TableRows(table) : ~ownedRow(row, r.target, r.userId)})
          /\ Update(i, Answer(r, 200, ""))
    /\ UNCHANGED nextId
    /\ recordFrame


-----------------------------------------------------------------------------
(* Initial states and specifications                                       *)

\* schema.sql applied to an empty database
FreshDatabase ==
    /\ adminInitialized = FALSE
    /\ users = {}
    /\ admins = {}
    /\ sessions = {}
    /\ resetTokens = {}
    /\ accountRows = {}
    /\ secretRows = {}
    /\ nextId = [user |-> 1, account |-> 1, secret |-> 1, token |-> 1]

NoRequests ==
    /\ srvNow = 0
    /\ reqs = <<>>
    /\ issued = {}

Alice == [id |-> 1, username |-> "alice", email |-> "alice@x",
          password_hash |-> hashPassword("p1", "s1"), role |-> "admin"]
Bob == [id |-> 2, username |-> "bob", email |-> "bob@x",
        password_hash |-> hashPassword("p1", "s1"), role |-> "user"]

\* The database after setupAdmin(alice), register(bob), a login of each
\* and sendResetLink(bob), all at time 0.
SeededDatabase ==
    /\ adminInitialized = TRUE
    /\ users = {Alice, Bob}
    /\ admins = {1}
    /\ sessions = {[token |-> 1, user_id |-> 1, expires_at |-> SessionLifetime],
                   [token |-> 2, user_id |-> 2, expires_at |-> SessionLifetime]}
    /\ resetTokens = {[token_hash |-> hashToken(3), user_id |-> 2,
                       expires_at |-> ResetLifetime, used |-> FALSE]}
    /\ accountRows = {}
    /\ secretRows = {}
    /\ nextId = [user |-> 3, account |-> 1, secret |-> 1, token |-> 4]
    /\ srvNow = 0
    /\ reqs = <<>>
    /\ issued = {[token |-> 1, user_id |-> 1, kind |-> "session"],
                 [token |-> 2, user_id |-> 2, kind |-> "session"],
                 [token |-> 3, user_id |-> 2, kind |-> "reset"]}

PageNonces == {1}
FormData == [name : {Str(p) : p \in Plaintexts},
             issuer : {Str(p) : p \in Plaintexts \cup {""}}]

VaultInitial ==
    /\ now = 0
    /\ ticks = 0
    /\ masterKey = NoKey
    /\ userSalt = "null"
    /\ isUnlocked = FALSE
    /\ unlockExpiry = NullTime
    /\ sessionStore = {}
    /\ storeTasks = <<>>
    /\ restoreTasks = <<>>
    /\ user = NoUser
    /\ unlockModalOpen = FALSE
    /\ serverRows = {}
    /\ encryptedAccounts = {}
    /\ accounts = {}
    /\ effectPending = FALSE
    /\ decryptTasks = <<>>
    /\ lastOp = "init"
    /\ checkResult = FALSE
    /\ lastUnlock = NoUnlock
    /\ localStorage = [auth |-> persistedAuth(NoUser),
                       system |-> [isInitialized |-> Null, theme |-> Str("dark")]]
    /\ requestBodies = {}
    /\ editingAccount = NoEdit

TickStep == \E d \in TickSteps : Tick(d)
LoginStep == \E u \in ClientUsers : Login(u)
UnlockStep == \E pw \in Passwords : Unlock(pw)
StoreStep == \E i \in 1..MaxPending + 1 : storeVaultSession(i)
RestoreStep == \E i \in 1..MaxPending + 1 : restoreThen(i)
DecryptStep == \E i \in 1..MaxPending + 1 : decryptAccounts(i)
\* What the form holds at submit for the row under edit: the values
\* handleEdit put there, each kept or typed over.
EditForms(account) ==
    [name : {Str(account.name)} \cup {Str(p) : p \in Plaintexts},
     issuer : {Str(account.issuer)} \cup {Str(p) : p \in Plaintexts \cup {""}}]

SubmitStep ==
    \E data \in (IF editingAccount = NoEdit THEN FormData
                  ELSE EditForms(editingAccount)), nonce \in PageNonces :
        onSubmit(data, nonce)
\* Rows are taken under edit until the page has sent MaxBodies bodies.
EditStep ==
    /\ Cardinality(requestBodies) < MaxBodies
    /\ \E account \in accounts : handleEdit(account)

\* No library function has been applied.
NoCall ==
    /\ call = [op |-> "none"]
    /\ result = [op |-> "none"]

InitVault == VaultInitial /\ FreshDatabase /\ NoRequests /\ NoCall

NextVault ==
    \/ TickStep
    \/ LoginStep
    \/ handleLogout
    \/ OpenUnlock
    \/ UnlockStep
    \/ StoreStep
    \/ checkUnlockStatus
    \/ RestoreStep
    \/ Reload
    \/ CloseTab
    \/ decryptEffect
    \/ DecryptStep
    \/ SubmitStep

SpecVault == InitVault /\ [][NextVault]_vars

\* The Accounts page with its edit dialog, without the clock and the
\* session storage.
NextPages ==
    \/ LoginStep
    \/ handleLogout
    \/ OpenUnlock
    \/ UnlockStep
    \/ StoreStep
    \/ Reload
    \/ decryptEffect
    \/ DecryptStep
    \/ SubmitStep
    \/ EditStep

SpecPages == InitVault /\ [][NextPages]_vars


InitServer ==
    /\ VaultInitial
    /\ NoCall
    /\ \/ FreshDatabase /\ NoRequests
       \/ SeededDatabase

\* The bearer values a client may present: those handed out, and a guess.
BearerInputs == {t.token : t \in issued} \cup {0}
\* What a request to a protected route may carry: a bearer value or no header.
HeaderInputs == BearerInputs \cup {NoHeader}
UserIdInputs == {u.id : u \in users} \cup {nextId.user}

ServerTickStep ==
    \E d \in {ResetLifetime, ResetLifetime + 1, SessionLifetime + 1} : ServerTick(d)
SetupAdminStep ==
    \E ident \in Identities, salt \in Salts : setupAdmin_check(ident, "p1", salt)
SetupAdminInsertStep == \E i \in 1..MaxReqs + 1 : setupAdmin_insert(i)
SetupAdminBatchStep == \E i \in 1..MaxReqs + 1 : setupAdmin_batch(i)
LoginVerifyStep ==
    \E ident \in Identities, pw \in ServerPasswords :
        login_verify(ident.username, pw)
LoginInsertStep == \E i \in 1..MaxReqs + 1 : login_insert(i)
ResetCheckStep ==
    \E t \in BearerInputs, pw \in {"p2", TooShort}, salt \in Salts :
        resetPassword_check(t, pw, salt)
ResetDeleteExpiredStep == \E i \in 1..MaxReqs + 1 : resetPassword_deleteExpired(i)
ResetBatchStep == \E i \in 1..MaxReqs + 1 : resetPassword_batch(i)
LogoutRequest ==
    \E t \in HeaderInputs :
        isAuthenticated([BlankReq EXCEPT !.kind = "logout", !.token = t])
SendResetLinkRequest ==
    \E t \in HeaderInputs, id \in UserIdInputs :
        isAuthenticated([BlankReq EXCEPT !.kind = "sendResetLink", !.token = t,
                                         !.target = id])
SessionExpiredStep == \E i \in 1..MaxReqs + 1 : isAuthenticated_expired(i)
LogoutStep == \E i \in 1..MaxReqs + 1 : logout(i)
SendResetLinkSelectStep == \E i \in 1..MaxReqs + 1 : sendResetLink_select(i)
SendResetLinkBatchStep == \E i \in 1..MaxReqs + 1 : sendResetLink_batch(i)

NextServer ==
    \/ ServerTickStep
    \/ SetupAdminStep
    \/ SetupAdminInsertStep
    \/ SetupAdminBatchStep
    \/ LoginVerifyStep
    \/ LoginInsertStep
    \/ ResetCheckStep
    \/ ResetDeleteExpiredStep
    \/ ResetBatchStep
    \/ LogoutRequest
    \/ SendResetLinkRequest
    \/ SessionExpiredStep
    \/ LogoutStep
    \/ SendResetLinkSelectStep
    \/ SendResetLinkBatchStep

SpecServer == InitServer /\ [][NextServer]_vars

-----------------------------------------------------------------------------
(* The admin routes beside logins and resets                               *)

Carol == [id |-> 3, username |-> "carol", email |-> "carol@x",
          password_hash |-> hashPassword("p1", "s1"), role |-> "user"]

\* The seeded database with one account and one secret of each user; bob is
\* a user, or an admin since an import.
AdminDatabase(bobRole) ==
    /\ adminInitialized = TRUE
    /\ users = {Alice, [Bob EXCEPT !.role = bobRole]}
    /\ admins = {1} \cup (IF bobRole = "admin" THEN {2} ELSE {})
    /\ sessions = {[token |-> 1, user_id |-> 1, expires_at |-> SessionLifetime],
                   [token |-> 2, user_id |-> 2, expires_at |-> SessionLifetime]}
    /\ resetTokens = {[token_hash |-> hashToken(3), user_id |-> 2,
                       expires_at |-> ResetLifetime, used |-> FALSE]}
    /\ accountRows = {[id |-> 1, user_id |-> 1, data |-> "c1"],
                      [id |-> 2, user_id |-> 2, data |-> "c1"]}
    /\ secretRows = {[id |-> 1, user_id |-> 1, data |-> "c1"],
                     [id |-> 2, user_id |-> 2, data |-> "c1"]}
    /\ nextId = [user |-> 3, account |-> 3, secret |-> 3, token |-> 4]
    /\ srvNow = 0
    /\ reqs = <<>>
    /\ issued = {[token |-> 1, user_id |-> 1, kind |-> "session"],
                 [token |-> 2, user_id |-> 2, kind |-> "session"],
                 [token |-> 3, user_id |-> 2, kind |-> "reset"]}

InitAdmin ==
    /\ VaultInitial
    /\ NoCall
    /\ \E bobRole \in {"user", "admin"} : AdminDatabase(bobRole)

\* Import payloads: a backup of two users with their records, with and
\* without truncate; a backup that holds no admin; one whose account belongs
\* to a user it does not hold; and one that lists alice as a user.
Backup ==
    [truncate |-> TRUE, users |-> {Alice, Carol},
     accounts |-> {[id |-> 1, user_id |-> 1, data |-> "c2"],
                   [id |-> 5, user_id |-> 3, data |-> "c2"]},
     secrets |-> {[id |-> 1, user_id |-> 3, data |-> "c2"]}]

ImportPayloads ==
    {Backup,
     [Backup EXCEPT !.truncate = FALSE],
     [truncate |-> TRUE, users |-> {Carol}, accounts |-> {}, secrets |-> {}],
     [truncate |-> TRUE, users |-> {Alice},
      accounts |-> {[id |-> 2, user_id |-> 2, data |-> "c2"]}, secrets |-> {}],
     [truncate |-> FALSE, users |-> {[Alice EXCEPT !.role = "user"]},
      accounts |-> {}, secrets |-> {}]}

\* What a request to an admin route may carry: a session token handed out
\* or no header.
AdminHeaderInputs ==
    {t.token : t \in {x \in issued : x.kind = "session"}} \cup {NoHeader}
\* The reset links mailed.
ResetLinkInputs == {t.token : t \in {x \in issued : x.kind = "reset"}}

AdminResetCheckStep ==
    \E t \in ResetLinkInputs, salt \in Salts : resetPassword_check(t, "p2", salt)
AdminLogoutRequest ==
    \E t \in AdminHeaderInputs :
        isAuthenticated([BlankReq EXCEPT !.kind = "logout", !.token = t])
DeleteUserRequest ==
    \E t \in AdminHeaderInputs, id \in UserIdInputs :
        isAuthenticated([BlankReq EXCEPT !.kind = "deleteUser", !.token = t,
                                         !.target = id])
ForceResetRequest ==
    \E t \in AdminHeaderInputs, id \in Ids(users), pw \in {"p2", TooShort} :
        isAuthenticated([BlankReq EXCEPT !.kind = "forceResetPassword",
                                         !.token = t, !.target = id, !.pw = pw])
ImportRequest ==
    \E t \in AdminHeaderInputs, payload \in ImportPayloads :
        isAuthenticated([BlankReq EXCEPT !.kind = "importData", !.token = t,
                                         !.import = payload])
DeleteUserStep == \E i \in 1..MaxReqs + 1 : deleteUser(i)
ForceResetUpdateStep ==
    \E i \in 1..MaxReqs + 1, salt \in Salts : forceResetPassword_update(i, salt)
ForceResetSessionsStep ==
    \E i \in 1..MaxReqs + 1 : forceResetPassword_deleteSessions(i)
ForceResetTokensStep ==
    \E i \in 1..MaxReqs + 1 : forceResetPassword_deleteTokens(i)
ImportStep == \E i \in 1..MaxReqs + 1 : importData(i)

NextAdmin ==
    \/ LoginVerifyStep
    \/ LoginInsertStep
    \/ AdminResetCheckStep
    \/ ResetBatchStep
    \/ AdminLogoutRequest
    \/ LogoutStep
    \/ DeleteUserRequest
    \/ DeleteUserStep
    \/ ForceResetRequest
    \/ ForceResetUpdateStep
    \/ ForceResetSessionsStep
    \/ ForceResetTokensStep
    \/ ImportRequest
    \/ ImportStep

SpecAdmin == InitAdmin /\ [][NextAdmin]_vars

\* The seeded database with one account and one secret of each user.
RecordsDatabase ==
    /\ adminInitialized = TRUE
    /\ users = {Alice, Bob}
    /\ admins = {1}
    /\ sessions = {[token |-> 1, user_id |-> 1, expires_at |-> SessionLifetime],
                   [token |-> 2, user_id |-> 2, expires_at |-> SessionLifetime]}
    /\ resetTokens = {}
    /\ accountRows = {[id |-> 1, user_id |-> 1, data |-> "c1"],
                      [id |-> 2, user_id |-> 2, data |-> "c1"]}
    /\ secretRows = {[id |-> 1, user_id |-> 1, data |-> "c1"],
                     [id |-> 2, user_id |-> 2, data |-> "c1"]}
    /\ nextId = [user |-> 3, account |-> 3, secret |-> 3, token |-> 3]
    /\ srvNow = 0
    /\ reqs = <<>>
    /\ issued = {[token |-> 1, user_id |-> 1, kind |-> "session"],
                 [token |-> 2, user_id |-> 2, kind |-> "session"]}

InitRecords == VaultInitial /\ RecordsDatabase /\ NoCall

RecordOps == {"list", "get", "create", "update", "delete"}
RecordIdInputs == 1..2

RecordRequest ==
    \E op \in RecordOps, table \in {"accounts", "secrets"}, t \in HeaderInputs,
       id \in RecordIdInputs :
        isAuthenticated([BlankReq EXCEPT !.kind = op, !.table = table,
                                         !.token = t, !.target = id,
                                         !.payload = "c2"])
ListStep == \E i \in 1..MaxReqs + 1 : listRecords(i)
GetStep == \E i \in 1..MaxReqs + 1 : getRecord(i)
CreateStep == \E i \in 1..MaxReqs + 1 : createRecord(i)
UpdateSelectStep == \E i \in 1..MaxReqs + 1 : updateRecord_select(i)
UpdateStep == \E i \in 1..MaxReqs + 1 : updateRecord_update(i)
DeleteStep == \E i \in 1..MaxReqs + 1 : deleteRecord(i)

NextRecords ==
    \/ RecordRequest
    \/ ListStep
    \/ GetStep
    \/ CreateStep
    \/ UpdateSelectStep
    \/ UpdateStep
    \/ DeleteStep

SpecRecords == InitRecords /\ [][NextRecords]_vars

-----------------------------------------------------------------------------
(* The record codec applied to given records, keys and stored values       *)

CodecSalts == {"1", "2"}
Nonces == {1, 2}
Damages == {"nonce", "ciphertext", "tag", "character", "slack"}

\* The objects the pages hand to encryptObject, and a whole row.
SecretRecords ==
    [name : {Str("x"), Str("xy")},
     issuer : {Str("x"), Str(""), Null, Undefined}]
RowRecords ==
    {[id |-> Num(7), user_id |-> Num(1), date_modified |-> Str("2024"),
      name |-> Str("x"), issuer |-> Str("")]}

\* The columns the worker adds to a stored payload (getAccounts' SELECT).
asRow(payload) ==
    payload @@ [id |-> Num(7), user_id |-> Num(1), date_modified |-> Str("2024")]

\* A stored wire string with one position changed: a byte of the nonce, of
\* the ciphertext or of the tag, a character replaced by one outside the
\* Base64 alphabet, or the bits of the last character that belong to no byte.
Alter(value, damage) ==
    LET b == value.b64
    IN [value EXCEPT !.b64 =
          IF damage = "nonce" THEN [b EXCEPT !.nonce = b.nonce + 1]
          ELSE IF damage = "ciphertext" THEN [b EXCEPT !.ct[1] = "altered"]
          ELSE IF damage = "tag" THEN [b EXCEPT !.tag[2] = b.nonce + 1]
          ELSE IF damage = "character" THEN [b EXCEPT !.wellFormed = FALSE]
          ELSE [b EXCEPT !.slack = 1]]

CanAlter(value, damage) ==
    /\ value.t = "string" /\ value.b64.wellFormed
    /\ damage = "slack" => SlackBits(WireLength(value.b64)) > 0

encryptCalls(obj, key, nonce) ==
    {f \in DOMAIN obj : obj[f] # Undefined /\ encryptField(obj[f], key, nonce).cipher}

decryptCalls(encryptedObj, key) ==
    {originalKey(k) : k \in {x \in DOMAIN encryptedObj :
        endsWithEncrypted(x) /\ decryptField(encryptedObj[x], key).cipher}}

deriveKeyCall(password, salt) ==
    /\ call' = [op |-> "deriveKey", password |-> password, salt |-> salt]
    /\ result' = [op |-> "deriveKey", value |-> deriveKey(password, salt)]
    /\ UNCHANGED <<vaultVars, serverVars>>

\* encryptObject(obj, key) with key = deriveKey(password, salt)
encryptObjectCall(obj, password, salt, nonce) ==
    /\ call' = [op |-> "encryptObject", obj |-> obj, password |-> password,
                salt |-> salt, damaged |-> {}]
    /\ result' = [op |-> "encryptObject",
                  value |-> encryptObject(obj, deriveKey(password, salt), nonce),
                  cipher |-> encryptCalls(obj, deriveKey(password, salt), nonce)]
    /\ UNCHANGED <<vaultVars, serverVars>>

\* A stored field of the payload is altered before it is read back.
damageField(f, damage) ==
    /\ call.op = "encryptObject"
    /\ call.damaged = {}
    /\ (f \o ENCRYPTED) \in DOMAIN result.value
    /\ CanAlter(result.value[f \o ENCRYPTED], damage)
    /\ call' = [call EXCEPT !.damaged = {<<f, damage>>}]
    /\ result' = [result EXCEPT
                    !.value[f \o ENCRYPTED] = Alter(@, damage)]
    /\ UNCHANGED <<vaultVars, serverVars>>

\* decryptObject(stored, key) on the payload encrypted before, alone or as
\* the row the worker returns, with key = deriveKey(password, salt) of a
\* later unlock.
decryptObjectCall(password, salt, row) ==
    /\ call.op = "encryptObject"
    /\ row => DOMAIN call.obj \cap PassThroughKeys = {}
    /\ LET key == deriveKey(password, salt)
           stored == IF row THEN asRow(result.value) ELSE result.value
       IN /\ call' = [op |-> "decryptObject", obj |-> call.obj,
                      encPassword |-> call.password, encSalt |-> call.salt,
                      damaged |-> call.damaged, encCipher |-> result.cipher,
                      stored |-> stored, password |-> password, salt |-> salt]
          /\ result' = [op |-> "decryptObject",
                        value |-> decryptObject(stored, key),
                        cipher |-> decryptCalls(stored, key)]
    /\ UNCHANGED <<vaultVars, serverVars>>

\* decryptData(stored[f_encrypted], key) on one field of the payload.
decryptDataCall(f, password, salt) ==
    /\ call.op = "encryptObject"
    /\ (f \o ENCRYPTED) \in DOMAIN result.value
    /\ result.value[f \o ENCRYPTED].t = "string"
    /\ LET key == deriveKey(password, salt)
           wire == result.value[f \o ENCRYPTED]
       IN /\ call' = [op |-> "decryptData", field |-> f, obj |-> call.obj,
                      encPassword |-> call.password, encSalt |-> call.salt,
                      damaged |-> call.damaged, password |-> password,
                      salt |-> salt]
          /\ result' = [op |-> "decryptData", resolved |-> decryptOk(wire, key),
                        value |-> IF decryptOk(wire, key)
                                  THEN Str(decryptData(wire, key))
                                  ELSE Str("OperationError")]
    /\ UNCHANGED <<vaultVars, serverVars>>

InitCodec == VaultInitial /\ FreshDatabase /\ NoRequests /\ NoCall

DeriveKeyStep ==
    \E pw \in Passwords, salt \in CodecSalts : deriveKeyCall(pw, salt)
EncryptObjectStep ==
    \E obj \in SecretRecords \cup RowRecords, pw \in Passwords,
       salt \in CodecSalts, nonce \in Nonces :
        encryptObjectCall(obj, pw, salt, nonce)
DamageStep == \E f \in FieldKeys, damage \in Damages : damageField(f, damage)
DecryptObjectStep ==
    \E pw \in Passwords, salt \in CodecSalts, row \in BOOLEAN :
        decryptObjectCall(pw, salt, row)
DecryptDataStep ==
    \E f \in FieldKeys, pw \in Passwords, salt \in CodecSalts :
        decryptDataCall(f, pw, salt)

NextCodec ==
    \/ DeriveKeyStep
    \/ EncryptObjectStep
    \/ DamageStep
    \/ DecryptObjectStep
    \/ DecryptDataStep

SpecCodec == InitCodec /\ [][NextCodec]_vars

-----------------------------------------------------------------------------
(* Password hashing applied to given passwords and stored strings         *)

\* Costs at which stored hashes were created, the current default among
\* them.
Costs == {1, PBKDF2_ITERATIONS_DEFAULT, 1000}

CreatedHashes ==
    {hashPasswordAt(p, salt, cost) :
        p \in ServerPasswords, salt \in Salts, cost \in Costs}

GoodSalt == toBase64(<<"s1">>)
GoodDigest == toBase64(pbkdf2("p1", <<"s1">>, PBKDF2_ITERATIONS_DEFAULT))

\* Stored strings that hashPassword never writes: another algorithm tag,
\* too few or too many '$' parts, a cost that is not a number or is 0, a
\* salt or digest that is not Base64, the empty string.
MalformedHashes ==
    {<<Text("2b"), Digits(10), Text("N9qo8uLOickgx2ZMRZoMye")>>,
     <<Text("argon2"), Digits(100), GoodSalt, GoodDigest>>,
     <<Text("pbkdf2"), Digits(100), GoodSalt>>,
     <<Text("pbkdf2"), Digits(100), GoodSalt, GoodDigest, Text("x")>>,
     <<Text("pbkdf2"), Text("ten"), GoodSalt, GoodDigest>>,
     <<Text("pbkdf2"), Digits(0), GoodSalt, GoodDigest>>,
     <<Text("pbkdf2"), Digits(100), Text("!!"), GoodDigest>>,
     <<Text("pbkdf2"), Digits(100), GoodSalt, Text("!!")>>,
     <<>>}

StoredHashes == CreatedHashes \cup MalformedHashes

\* The users table after importData wrote a user row with a given
\* password_hash.
ImportedDatabase ==
    /\ adminInitialized = TRUE
    /\ \E h \in StoredHashes :
          users = {[id |-> 1, username |-> "alice", email |-> "alice@x",
                    password_hash |-> h, role |-> "admin"]}
    /\ admins = {1}
    /\ sessions = {}
    /\ resetTokens = {}
    /\ accountRows = {}
    /\ secretRows = {}
    /\ nextId = [user |-> 2, account |-> 1, secret |-> 1, token |-> 1]

hashPasswordCall(password, salt) ==
    /\ call' = [op |-> "hashPassword", password |-> password]
    /\ result' = [op |-> "hashPassword", threw |-> FALSE,
                  value |-> hashPassword(password, salt)]
    /\ UNCHANGED <<vaultVars, serverVars>>

\* verifyPassword(password, storedHash) on a string read from the table.
verifyPasswordCall(password, storedHash) ==
    /\ call' = [op |-> "verifyPassword", password |-> password,
                storedHash |-> storedHash]
    /\ result' = [op |-> "verifyPassword",
                  threw |-> verifyPasswordThrows(password, storedHash),
                  value |-> /\ ~verifyPasswordThrows(password, storedHash)
                            /\ verifyPassword(password, storedHash)]
    /\ UNCHANGED <<vaultVars, serverVars>>

InitHash == VaultInitial /\ ImportedDatabase /\ NoRequests /\ NoCall

HashPasswordStep ==
    \E pw \in ServerPasswords, salt \in Salts : hashPasswordCall(pw, salt)
VerifyPasswordStep ==
    \E pw \in ServerPasswords, u \in users : verifyPasswordCall(pw, u.password_hash)
HashLoginVerifyStep ==
    \E pw \in ServerPasswords : login_verify("alice", pw)
HashLoginInsertStep == \E i \in 1..MaxReqs + 1 : login_insert(i)

NextHash ==
    \/ HashPasswordStep
    \/ VerifyPasswordStep
    \/ HashLoginVerifyStep
    \/ HashLoginInsertStep

SpecHash == InitHash /\ [][NextHash]_vars

-----------------------------------------------------------------------------
(* Vault session properties                                                *)

Locked == masterKey = NoKey /\ ~isUnlocked

\* C2: after an unlock at T with window W, checkUnlockStatus before T+W
\* reports unlocked, and after T+W it reports locked with the key discarded
\* (masterKey null, isUnlocked false).
C2_ExpiryLocksVault ==
    /\ (lastOp = "checkUnlockStatus" /\ masterKey # NoKey
          /\ unlockExpiry # NullTime /\ now < unlockExpiry) => checkResult
    /\ (lastOp = "checkUnlockStatus" /\ unlockExpiry # NullTime
          /\ now > unlockExpiry) => (~checkResult /\ Locked)

\* C3: once the unlock window has elapsed the held key is never used to
\* decrypt fetched records or to encrypt a record for saving.
C3_NoKeyUseAfterExpiry ==
    lastOp \in {"encrypt", "decrypt"} => ~Expired

\* C4: after clearMasterKey the in-memory key is null and sessionStorage
\* holds no copy of the key, and it stays empty until the next unlock, also
\* when a storeVaultSession started before the lock settles after it.
C4_LockClearsKeyAndStore ==
    /\ lastOp = "clearMasterKey" => (Locked /\ sessionStore = {})
    /\ lastUnlock = NoUnlock => sessionStore = {}

\* A storeVaultSession started by an unlock has settled after the lock.
C4_Witness ==
    /\ lastUnlock = NoUnlock
    /\ lastOp = "storeVaultSession"
    /\ user # NoUser

\* C5: after unlock at T the vault is Unlocked with unlockExpiry = T + W,
\* and once storeVaultSession has completed sessionStorage holds a copy of
\* that key with an expiry.
C5_UnlockPersistsKey ==
    /\ lastOp = "unlock" =>
          (isUnlocked /\ masterKey # NoKey
             /\ unlockExpiry = now + DEFAULT_UNLOCK_DURATION)
    /\ lastUnlock.stored =>
          \E s \in sessionStore : s.key = lastUnlock.key.material

\* C6: after an unlock, a reload and a checkUnlockStatus before T+W restore
\* the same key; with the session storage discarded nothing is restored.
C6_ReloadRestoresKey ==
    [][/\ (lastOp' = "restoreThen" /\ masterKey = NoKey
             /\ lastUnlock.stored /\ now < lastUnlock.expiry)
          => masterKey'.material = lastUnlock.key.material
       /\ (lastOp' = "restoreThen" /\ masterKey = NoKey
             /\ lastUnlock = NoUnlock)
          => masterKey' = NoKey]_vars

\* C23: after clearMasterKey (lock, login or logout) the vault stays Locked,
\* masterKey null and isUnlocked false, until the next setMasterKey, also
\* when a restore started by checkUnlockStatus before the lock completes
\* after it.
C23_LockedUntilNextUnlock ==
    lastUnlock = NoUnlock => Locked

\* clearMasterKey has run while a restore started earlier is still pending.
C23_Witness ==
    /\ lastOp = "clearMasterKey"
    /\ restoreTasks # <<>>
    /\ user # NoUser

\* C27: in every reachable state of the vault store isUnlocked is true
\* exactly when masterKey is non-null, and while isUnlocked is true
\* unlockExpiry is a time.
C27_UnlockedIffKeyWithExpiry ==
    /\ isUnlocked <=> masterKey # NoKey
    /\ isUnlocked => unlockExpiry # NullTime

\* The restore callback has run in an unlocked store.
C27_Witness ==
    /\ isUnlocked
    /\ lastOp = "restoreThen"

\* C25: whenever the vault is Locked (masterKey null) the page holds no
\* decrypted rows, also when the key is cleared while a decryption pass
\* over the fetched records is still in flight.
C25_LockedPageHoldsNoRows ==
    masterKey = NoKey => accounts = {}

\* The key has been cleared while a decryption pass is in flight.
C25_Witness ==
    /\ masterKey = NoKey
    /\ \E i \in 1..Len(decryptTasks) : ~decryptTasks[i].mounted

\* The plaintext inside a stored wire value, "" for null.
StoredPlaintext(value) == IF value.t = "string" THEN value.b64.ct[1] ELSE ""

\* The step saves the row under edit.
SavesEdit == editingAccount # NoEdit /\ lastOp' = "encrypt"

\* The fields of the row under edit that failed to decrypt.
FailedFields == {f \in {"name", "issuer"} : editingAccount[f] = DecryptionFailed}

StoredRow(rows, id) == CHOOSE r \in rows : r.id = id

\* C28: editing and saving a record never replaces a stored ciphertext by
\* an encryption of the '[DECRYPTION FAILED]' marker: a field that failed
\* to decrypt keeps its stored ciphertext after the edit-and-save.
C28_FailedFieldKeepsCiphertext ==
    [][SavesEdit =>
         \A f \in FailedFields :
            LET before == StoredRow(serverRows, editingAccount.id)[f \o ENCRYPTED]
                after == StoredRow(serverRows', editingAccount.id)[f \o ENCRYPTED]
            IN /\ StoredPlaintext(after) # DecryptionFailed
               /\ (StoredPlaintext(before) # DecryptionFailed) => after = before]_vars

-----------------------------------------------------------------------------
(* Worker properties                                                       *)

Succeeded(kind) == {i \in 1..Len(reqs) : reqs[i].kind = kind /\ reqs[i].status = 200}

\* C1: of all the reset-password requests that carry one token, whatever
\* their interleaving, at most one succeeds.
C1_ResetTokenSingleUse ==
    \A i, j \in Succeeded("resetPassword") : reqs[i].token = reqs[j].token => i = j

SessionsIssuedTo(userId) ==
    {t.token : t \in {x \in issued : x.kind = "session" /\ x.user_id = userId}}

ResetCommits(i) ==
    /\ i \in 1..Len(reqs)
    /\ reqs[i].kind = "resetPassword" /\ reqs[i].pc = "batch"
    /\ reqs'[i].status = 200

\* C7: the step in which resetPassword succeeds for a token of user U
\* replaces U's password hash, deletes every session row of U and marks the
\* token used, and right after it no session token issued to U before
\* authenticates a request.
C7_ResetInvalidatesSessions ==
    [][\A i \in 1..MaxReqs + 1 : ResetCommits(i) =>
         LET r == reqs[i]
         IN /\ \A u \in users' : u.id = r.userId => u.password_hash = r.hash
            /\ \A s \in sessions' : s.user_id # r.userId
            /\ \A t \in resetTokens' :
                  t.token_hash = hashToken(r.token) => t.used
            /\ \A tok \in SessionsIssuedTo(r.userId) : ~Authenticates(tok)']_vars

\* A reset has succeeded for a user who held a session token before it.
C7_Witness ==
    \E i \in Succeeded("resetPassword") :
        /\ SessionsIssuedTo(reqs[i].userId) # {}
        /\ \E u \in users : u.id = reqs[i].userId /\ u.password_hash = reqs[i].hash

RowsOfOthers(rows, userId) == {row \in rows : row.user_id # userId}

\* C8: a record request authenticated as B (list, get, update, delete by
\* any id, on accounts or secrets) returns no row of another user and
\* leaves every row of another user unchanged.
C8_RecordsScopedToOwner ==
    [][\A i \in 1..MaxReqs + 1 :
         (i \in 1..Len(reqs) /\ reqs[i].pc # "done" /\ reqs'[i] # reqs[i]
            /\ reqs[i].kind \in {"list", "get", "update", "delete"}) =>
           /\ \A row \in reqs'[i].resp : row.user_id = reqs[i].userId
           /\ RowsOfOthers(accountRows', reqs[i].userId)
                 = RowsOfOthers(accountRows, reqs[i].userId)
           /\ RowsOfOthers(secretRows', reqs[i].userId)
                 = RowsOfOthers(secretRows, reqs[i].userId)]_vars

\* A user has asked for, updated and deleted by the id of another user's
\* row, and that row is still as it was.
C8_Witness ==
    /\ \E i \in 1..Len(reqs) :
          /\ reqs[i].kind = "get" /\ reqs[i].status = 404
          /\ reqs[i].userId = 2 /\ reqs[i].target = 1
    /\ \E i \in 1..Len(reqs) :
          /\ reqs[i].kind = "delete" /\ reqs[i].status = 200
          /\ reqs[i].userId = 2 /\ reqs[i].target = 1
          /\ reqs[i].table = "accounts"
    /\ [id |-> 1, user_id |-> 1, data |-> "c1"] \in accountRows

\* C9: over every interleaving of setup requests at most one succeeds and
\* at most one user is created by setup.
C9_AdminSetupOnce ==
    /\ Cardinality(Succeeded("setupAdmin")) <= 1
    /\ Cardinality({i \in 1..Len(reqs) :
                      reqs[i].kind = "setupAdmin" /\ reqs[i].userId # 0}) <= 1

StoredTokenValues ==
    {s.token : s \in sessions} \cup {t.token_hash : t \in resetTokens}

\* C10: whenever the worker hands out a bearer secret (a session token at
\* login, a reset token at sendResetLink) the tables hold hashToken(secret)
\* and not the secret itself.
C10_OnlyTokenDigestsStored ==
    [][\A t \in issued' \ issued :
          /\ t.token \notin StoredTokenValues'
          /\ hashToken(t.token) \in StoredTokenValues']_vars

\* Request i is a reset-password request refused in this step.
ResetRefused(i) ==
    /\ i \in 1..Len(reqs')
    /\ reqs'[i].kind = "resetPassword"
    /\ reqs'[i].pc = "done" /\ reqs'[i].status # 200
    /\ (i \in 1..Len(reqs) => reqs[i].pc # "done")

PasswordHashes == {<<u.id, u.password_hash>> : u \in users}

\* A reset-password request arrives in this step.
ResetArrives ==
    Len(reqs') > Len(reqs) /\ reqs'[Len(reqs')].kind = "resetPassword"

\* C26: a reset-password request that fails (unknown token, used token,
\* expired token, invalid payload) leaves every password hash and the
\* sessions table as they were; a request that arrives with a token some
\* answered request has redeemed is refused; and the step that refuses an
\* expired token leaves no row of that token.
C26_FailedResetChangesNothing ==
    [][/\ \A i \in 1..MaxReqs + 1 : ResetRefused(i) =>
             /\ PasswordHashes' = PasswordHashes
             /\ sessions' = sessions
             /\ reqs'[i].error = "Token has expired" =>
                    \A t \in resetTokens' : t.token_hash # hashToken(reqs'[i].token)
       /\ ResetArrives =>
             LET r == reqs'[Len(reqs')]
             IN (\E i \in Succeeded("resetPassword") : reqs[i].token = r.token)
                    => r.pc = "done" /\ r.status = 400]_vars

\* A token was redeemed and then presented again and refused.
C26_Witness ==
    \E i, j \in 1..Len(reqs) :
        /\ i < j
        /\ reqs[i].kind = "resetPassword" /\ reqs[j].kind = "resetPassword"
        /\ reqs[i].status = 200 /\ reqs[j].token = reqs[i].token
        /\ reqs[j].error = "Token already used"

\* Each user has at most one row in password_reset_tokens.
AtMostOneTokenRow ==
    \A t1, t2 \in resetTokens : t1.user_id = t2.user_id => t1 = t2

\* The reset tokens mailed for the user after the given one.
NewerLinks(userId, token) ==
    {t \in issued : t.kind = "reset" /\ t.user_id = userId /\ t.token > token}

\* C29: each user has at most one row in password_reset_tokens, and no
\* reset-password request succeeds with a link of a user for whom a newer
\* link has been issued.
C29_EarlierLinkNotRedeemed ==
    [][/\ AtMostOneTokenRow'
       /\ \A i \in 1..MaxReqs + 1 :
             ResetCommits(i) => NewerLinks(reqs[i].userId, reqs[i].token) = {}]_vars

\* The password a session was created with: the one its login request
\* verified; the sessions of the initial database come from logins with "p1".
LoginPassword(token) ==
    IF \E i \in 1..Len(reqs) : reqs[i].kind = "login" /\ reqs[i].newToken = token
    THEN (LET i == CHOOSE j \in 1..Len(reqs) :
                      reqs[j].kind = "login" /\ reqs[j].newToken = token
          IN reqs[i].pw)
    ELSE "p1"

\* A forced reset of the user has written the new hash and has not yet
\* answered.
ForcedResetRunning(userId) ==
    \E i \in 1..Len(reqs) :
        /\ reqs[i].kind = "forceResetPassword" /\ reqs[i].target = userId
        /\ reqs[i].pc \in {"deleteSessions", "deleteTokens"}

\* C24: once a password reset of a user has succeeded, by token or forced
\* by an admin, no session row of that user comes from a login that verified
\* another password than the one the user now has, whatever the order in
\* which the steps of the login and of the reset ran.
C24_NoSessionFromOldPassword ==
    \A s \in sessions : \A u \in users :
        (u.id = s.user_id /\ ~ForcedResetRunning(u.id))
            => verifyPassword(LoginPassword(s.token), u.password_hash)

\* A login verified the old password, a forced reset ran from its UPDATE to
\* its answer, and the login's session row is there.
ForcedResetOutrun ==
    \E i, j \in 1..Len(reqs) :
        /\ reqs[i].kind = "forceResetPassword" /\ reqs[i].status = 200
        /\ reqs[j].kind = "login" /\ reqs[j].status = 200
        /\ reqs[j].userId = reqs[i].target
        /\ reqs[j].pw # reqs[i].pw
        /\ \E s \in sessions : s.token = reqs[j].newToken

AdminExists == \E u \in users : u.role = "admin"

\* C30: once admin setup has completed, a user with role admin exists.
C30_AdminAlwaysExists == adminInitialized => AdminExists

\* Two admins have each deleted the other and no admin is left.
AdminsDeletedEachOther ==
    /\ ~AdminExists
    /\ \E i, j \in Succeeded("deleteUser") :
          reqs[i].target = reqs[j].userId /\ reqs[j].target = reqs[i].userId

\* The routes registered behind isAuthenticated.
ProtectedKinds == {"logout", "sendResetLink"} \cup RecordOps

\* The routes registered behind isAuthenticated and isAdmin beside
\* sendResetLink.
AdminKinds == {"deleteUser", "forceResetPassword", "importData"}

\* Request i, at its handler, is answered in this step with `status`.
HandlerAnswers(i, kind, status) ==
    /\ i \in 1..Len(reqs)
    /\ reqs[i].kind = kind /\ reqs[i].pc = "handler"
    /\ reqs'[i].pc = "done" /\ reqs'[i].status = status

Tables == <<users, admins, sessions, resetTokens, accountRows, secretRows>>

RowsOf(userId) ==
    {row \in sessions \cup resetTokens \cup accountRows \cup secretRows :
        row.user_id = userId}

\* A user was deleted by an answered deleteUser and no row of that id is in
\* users.
Deleted(userId) ==
    /\ \E i \in Succeeded("deleteUser") : reqs[i].target = userId
    /\ \A u \in users : u.id # userId

\* The bearer secrets of the given kind handed out for the user.
IssuedTo(userId, kind) ==
    {t.token : t \in {x \in issued : x.kind = kind /\ x.user_id = userId}}

\* C22: the step in which deleteUser(id) succeeds leaves no session,
\* account, secret, admin or reset-token row of that user, and a request
\* that arrives with a bearer token issued to a deleted user is refused: 401
\* for a session token on a protected route, 400 for a reset token.
C22_DeleteUserLeavesNothing ==
    [][/\ \A i \in 1..MaxReqs + 1 : HandlerAnswers(i, "deleteUser", 200) =>
             /\ RowsOf(reqs[i].target)' = {}
             /\ reqs[i].target \notin admins'
             /\ \A tok \in IssuedTo(reqs[i].target, "session") :
                   ~Authenticates(tok)'
       /\ Len(reqs') > Len(reqs) =>
             LET r == reqs'[Len(reqs')]
             IN \A userId \in 1..nextId.user : Deleted(userId) =>
                   /\ (r.kind \in AdminKinds \cup ProtectedKinds
                         /\ r.token \in IssuedTo(userId, "session"))
                        => r.pc = "done" /\ r.status = 401
                   /\ (r.kind = "resetPassword"
                         /\ r.token \in IssuedTo(userId, "reset"))
                        => r.pc = "done" /\ r.status = 400]_vars

\* Bob, who held a session, records and a reset link, was deleted, and the
\* next request with his session token was refused.
C22_Witness ==
    \E i, j \in 1..Len(reqs) :
        /\ i < j
        /\ reqs[i].kind = "deleteUser" /\ reqs[i].status = 200
        /\ reqs[i].target = 2
        /\ reqs[j].token \in IssuedTo(2, "session") /\ reqs[j].status = 401
        /\ RowsOf(2) = {}


\* The sessions table holds a row for the token that has not expired.
LiveSession(token) ==
    \E s \in sessions : s.token = token /\ s.expires_at >= srvNow

ExpiredSession(token) ==
    \E s \in sessions : s.token = token /\ s.expires_at < srvNow

\* C16: a request to a protected route reaches its handler exactly when it
\* carries a Bearer token whose session row exists and has not expired; with
\* no header, an unknown token (one removed by logout included) or an expired
\* session it is answered 401 and no handler runs, and the expired row is
\* deleted.
C16_ProtectedRoutesNeedLiveSession ==
    [][/\ (Len(reqs') > Len(reqs) /\ reqs'[Len(reqs')].kind \in ProtectedKinds)
          => LET r == reqs'[Len(reqs')]
             IN /\ r.pc = "handler" <=> (r.token # NoHeader /\ LiveSession(r.token))
                /\ r.pc # "handler"
                      => \/ r.pc = "done" /\ r.status = 401
                         \/ r.pc = "sessionExpired" /\ ExpiredSession(r.token)
       /\ \A i \in 1..Len(reqs) :
             /\ (reqs[i].pc = "sessionExpired" /\ reqs'[i] # reqs[i])
                   => /\ reqs'[i].pc = "done" /\ reqs'[i].status = 401
                      /\ \A s \in sessions' : s.token # reqs[i].token
             /\ (reqs[i].kind \in ProtectedKinds /\ reqs'[i].pc = "handler")
                   => reqs[i].pc = "handler"]_vars

\* A token that logged out is refused afterwards.
C16_Witness ==
    \E i, j \in 1..Len(reqs) :
          /\ i < j
          /\ reqs[i].kind = "logout" /\ reqs[i].status = 200
          /\ reqs[j].kind \in ProtectedKinds /\ reqs[j].token = reqs[i].token
          /\ reqs[j].status = 401

\* The status and body of the answer to request i.
Response(i) == <<reqs[i].status, reqs[i].error>>

\* The answered requests of the given kinds that were refused with `status`.
Refused(kinds, status) ==
    {i \in 1..Len(reqs) : /\ reqs[i].kind \in kinds
                          /\ reqs[i].pc = "done"
                          /\ reqs[i].status = status}

LoginRefusalsAlike ==
    \A i, j \in Refused({"login"}, 401) : Response(i) = Response(j)

SessionRefusalsAlike ==
    \A i, j \in Refused(ProtectedKinds, 401) :
        (reqs[i].token # NoHeader /\ reqs[j].token # NoHeader)
            => Response(i) = Response(j)

ResetRefusalsAlike ==
    \A i, j \in Refused({"resetPassword"}, 400) : Response(i) = Response(j)

\* C17: authentication failures are opaque: a login refused for an unknown
\* username gets the same response as one refused for a wrong password, and
\* a refused session token or reset token gets the same response whether it
\* is unknown, expired or already used.
C17_AuthFailuresOpaque ==
    /\ LoginRefusalsAlike
    /\ SessionRefusalsAlike
    /\ ResetRefusalsAlike

\* The operations that use or look at an unlocked vault.
VaultUses == {"encrypt", "decrypt", "checkUnlockStatus", "restoreThen"}

C14_ExpiryUnmoved == [][lastOp' \in VaultUses => unlockExpiry' = unlockExpiry]_vars

\* C14: the lock time is fixed at unlock: no encrypt, decrypt,
\* checkUnlockStatus or restoration changes the expiry set by setMasterKey,
\* and once that time has passed such an operation finds the vault Locked.
C14_LocksOnSchedule ==
    /\ C14_ExpiryUnmoved
    /\ []((lastOp \in VaultUses /\ unlockExpiry # NullTime /\ now > unlockExpiry)
             => Locked)

\* Every form of a vault key: the CryptoKey and its raw bytes.
KeyForms ==
    UNION {{deriveKey(pw, salt), RawKey(deriveKey(pw, salt))} :
             pw \in Passwords, salt \in ClientUsers}

Contents(record) == {record[f] : f \in DOMAIN record}

\* C13: in every reachable state the derived vault key, raw or wrapped, is
\* in no entry of localStorage (accmanager-auth, accmanager-system) and in
\* no API request body.
C13_KeyStaysInSession ==
    /\ \A area \in DOMAIN localStorage :
          Contents(localStorage[area]) \cap KeyForms = {}
    /\ \A body \in requestBodies : Contents(body) \cap KeyForms = {}

\* The vault is unlocked, the user state is persisted and an encrypted
\* payload has been sent.
C13_Witness ==
    /\ masterKey \in KeyForms
    /\ localStorage.auth.user # Null
    /\ \E body \in requestBodies :
          /\ "name_encrypted" \in DOMAIN body
          /\ body.name_encrypted.b64.wellFormed

-----------------------------------------------------------------------------
(* Codec properties                                                        *)

\* The stored field f no longer opens under the key of the call: it was
\* damaged in a byte or character, or the key is another one.
Broken(f) ==
    \/ <<call.password, call.salt>> # <<call.encPassword, call.encSalt>>
    \/ \E d \in Damages \ {"slack"} : <<f, d>> \in call.damaged

\* The fields of the record that were stored as a wire string.
StoredFields == {f \in DOMAIN call.obj : call.obj[f] \notin {Undefined, Null, Str("")}}

\* C11: decryptObject on a record in which some *_encrypted fields fail to
\* decrypt never throws; every valid field comes back as its plaintext and
\* exactly the failing fields come back as '[DECRYPTION FAILED]'.
C11_PartialFailureIsolated ==
    call.op = "decryptObject" =>
      /\ result.value # Thrown
      /\ \A f \in StoredFields :
            result.value[f] = IF Broken(f) THEN Str(DecryptionFailed)
                              ELSE Str(String(call.obj[f]))

\* decryptObject has returned a record with one failing and one valid field.
C11_Witness ==
    /\ call.op = "decryptObject"
    /\ result.value # Thrown
    /\ \E f, g \in StoredFields :
          /\ Broken(f) /\ result.value[f] = Str(DecryptionFailed)
          /\ ~Broken(g) /\ result.value[g] = Str("x")

\* The stored payload is read back as it was written, under a key derived
\* again from the passphrase and salt it was encrypted with.
ReadBackUnderSameSecret ==
    /\ call.op = "decryptObject"
    /\ call.damaged = {}
    /\ <<call.password, call.salt>> = <<call.encPassword, call.encSalt>>

OtherKey ==
    <<call.password, call.salt>> # <<call.encPassword, call.encSalt>>

\* decryptData was given a wire string altered in the way `damage`.
Altered(damage) == <<call.field, damage>> \in call.damaged

\* C18: decryptData of a wire string under a key different from the
\* encrypting key, or of a wire string altered in any position, fails with
\* an error and never returns a plaintext.
C18_WrongKeyOrAlteredFails ==
    (call.op = "decryptData" /\ (OtherKey \/ \E d \in Damages : Altered(d)))
        => ~result.resolved

\* encryptObject emitted the identifiers and timestamps of its argument
\* under their own names with their own values.
EncryptPassesThrough ==
    call.op = "encryptObject" =>
        \A k \in DOMAIN call.obj \cap PassThroughKeys :
            k \in DOMAIN result.value /\ result.value[k] = call.obj[k]

\* decryptObject returned the identifiers and timestamps of the stored row.
DecryptPassesThrough ==
    call.op = "decryptObject" =>
        \A k \in DOMAIN call.stored \cap PassThroughKeys :
            k \in DOMAIN result.value /\ result.value[k] = call.stored[k]

\* C19: the codec encrypts only secret fields: for a record that contains
\* id, user_id or date_modified, encryptObject emits those fields with their
\* original name and value, and decryptObject returns them unchanged.
C19_IdentifiersPassThrough ==
    /\ EncryptPassesThrough
    /\ DecryptPassesThrough

-----------------------------------------------------------------------------
(* Password hash properties                                                *)

LoginsOf(hashes) ==
    {i \in 1..Len(reqs) :
        /\ reqs[i].kind = "login"
        /\ \E u \in users : u.username = reqs[i].name /\ u.password_hash \in hashes}

\* C15: for an unsupported or malformed stored hash verifyPassword returns
\* false and does not throw, and a login of that user is answered 401, not
\* with an internal error.
C15_MalformedHashVerifiesFalse ==
    /\ (call.op = "verifyPassword" /\ call.storedHash \in MalformedHashes)
          => (~result.threw /\ ~result.value)
    /\ \A i \in LoginsOf(MalformedHashes) : reqs[i].status = 401

PasswordOf(storedHash) ==
    CHOOSE p \in ServerPasswords :
        \E salt \in Salts, cost \in Costs : storedHash = hashPasswordAt(p, salt, cost)

\* C20: a hash of p created at any cost N verifies true for p and false for
\* any other password, whatever the current default cost, also when read
\* back from the users table at login.
C20_HashVerifiesAtItsOwnCost ==
    /\ (call.op = "verifyPassword" /\ call.storedHash \in CreatedHashes)
          => /\ ~result.threw
             /\ result.value = (call.password = PasswordOf(call.storedHash))
    /\ \A i \in LoginsOf(CreatedHashes) :
          LET u == CHOOSE x \in users : x.username = reqs[i].name
          IN IF reqs[i].pw = PasswordOf(u.password_hash)
             THEN reqs[i].status \in {0, 200}
             ELSE reqs[i].status = 401

\* A hash created at a cost other than the default has verified true for
\* its password and false for another, and its user has logged in.
C20_Witness ==
    /\ call.op = "verifyPassword"
    /\ call.storedHash = hashPasswordAt("p1", "s1", 1000)
    /\ call.password = "p2" /\ ~result.value
    /\ \E i \in LoginsOf(CreatedHashes) : reqs[i].status = 200
    /\ \E i \in LoginsOf(CreatedHashes) : reqs[i].status = 401

====
